---- MODULE Spec2Model ----
\* A model of the tokio-kafka client core: the metadata manager of
\* client/client.rs, its correlation-id counter, and the record accumulator
\* and producer of producer/accumulator.rs and producer/producer.rs.
EXTENDS Integers, Sequences, FiniteSets, TLC

\* ------------------------------------------------------------------ bounds
MaxHosts == 2
MaxLoads == 2
MaxCallers == 2
MaxBrokers == 1
CorrBits == 4
MaxInflight == 2
MaxTPs == 2
MaxRecords == 2
MaxUserFlushes == 1
BatchSize == 2
Linger == 1
MaxAttempts == 2
MaxNodes == 2
RequestTimeout == 1
MaxParts == 2
MaxSends == 3
MaxRequests == 3
MaxConns == 2
MaxIdle == 1
MaxPushes == 3
MaxVersion == 2
MaxStatuses == 1
MaxTopicNames == 3

Hosts == 1..MaxHosts
Brokers == 1..MaxBrokers
Callers == 1..MaxCallers
TPs == 1..MaxTPs
\* record sizes: a small record, one that fills a batch, one no batch can hold
RecSizes == {1, BatchSize, BatchSize + 1}
MaxTime == Linger
FlushIds == ({"full", "linger"} \X (1..MaxRecords)) \cup ({"user"} \X (1..MaxUserFlushes))
Nodes == 1..MaxNodes

\* ------------------------------------------------------------ client state
VARIABLES
  config,          \* ClientConfig: hosts, api_version_request, metadata_max_age
  correlation_id,  \* State::correlation_id
  status,          \* State::metadata, a MetadataStatus
  heap,            \* the Rc<Metadata> cells allocated so far, by reference
  loads,           \* the LoadMetadata futures created so far
  waiter,          \* the GetMetadata future handed to each caller
  timers,          \* refresh Timeouts armed by load_metadata and not yet fired
  panicked,        \* a debug build aborted on arithmetic overflow
  issued,          \* the ids returned by next_correlation_id, in call order
  inflight,        \* positions in issued of the requests still awaiting a response
  cluster,         \* the number of brokers of the cluster the client talks to
  now,             \* the reactor's clock
  batches,         \* RecordAccumulator::batches, a deque of batches per topic-partition
  records,         \* the SendRecord future returned for each record sent
  ltimers,         \* linger Timeouts armed by send and not yet fired
  flushes,         \* the Flush futures created by flush_batches
  futs,            \* per record pushed: its FutureRecordMetadata and its Thunk
  sender,          \* the Sender of the batch a Flush took, under Retry::spawn
  log_end,         \* broker side: the next offset of each topic-partition
  snapshot,        \* the leader named by the client's Loaded metadata snapshot
  leader,          \* the broker that leads the partitions now
  refresh,         \* a metadata refresh is loading
  op,              \* the client operation in progress and its requests
  table,           \* the requests with an entry in a connection's pending table
  acc,             \* RecordAccumulator::batches by (topic, partition), as send fills it
  counter,         \* DefaultPartitioner::records
  pushed,          \* what Inner::push_record handed to the accumulator, per send
  last_record,     \* the ProducerRecord of the last send
  conn,            \* a connection: its state
  pending,         \* the connection's pending table: (correlation id, request)
  wire,            \* correlation ids of the responses on their way to the connection
  calls,           \* the requests sent on the connection and their completions
  idle,            \* the pool's idle connections of a broker address, with idle_at
  borrowed,        \* the connections checked out of the pool or dialled, in use
  clock,           \* the time the pool reads
  checkout,        \* the result of the last pool checkout
  src,             \* the BytesMut a ProduceResponseDecoder reads from
  inbound,         \* the bytes of the stream that have not reached src yet
  decoder,         \* the ProduceResponseDecoder: its version, its last result
  response,        \* the ProduceResponse the broker put on the stream
  subscriptions    \* a consumer's Subscriptions

metaVars == <<config, cluster, status, heap, loads, waiter, timers>>
corrVars == <<correlation_id, panicked, issued, inflight>>
prodVars == <<now, batches, records, ltimers, flushes>>
sendVars == <<futs, sender, log_end, snapshot, leader, refresh>>
opsVars == <<op, table>>
pushVars == <<acc, counter, pushed, last_record>>
connVars == <<conn, pending, wire, calls>>
poolVars == <<idle, borrowed, clock, checkout>>
codecVars == <<src, inbound, decoder, response>>
netVars == <<connVars, poolVars, codecVars, subscriptions>>
restVars == <<sendVars, opsVars, pushVars, netVars>>
vars == <<metaVars, corrVars, prodVars, restVars>>

\* ------------------------------------------------------- correlation ids
IntMax == 2^(CorrBits - 1) - 1
IntMin == 0 - 2^(CorrBits - 1)

\* a variant that saturates at the largest value
saturating_add(c) == IF c = IntMax THEN IntMax ELSE c + 1

wrapping_add(c) == IF c = IntMax THEN IntMin ELSE c + 1

\* `self.correlation_id - 1` of a release build (two's complement wrap)
wrapping_sub(c) == IF c = IntMin THEN IntMax ELSE c - 1

\* State::next_correlation_id: the counter after the call, the value returned,
\* and whether the subtraction overflows (a panic in a debug build).
next_correlation_id(c) ==
  [next |-> wrapping_add(c),
   id |-> wrapping_sub(wrapping_add(c)),
   overflow |-> wrapping_add(c) = IntMin]

\* the counter after n consecutive calls, and the ids they return
RECURSIVE CounterAfter(_, _)
CounterAfter(c, n) == IF n = 0 THEN c ELSE CounterAfter(next_correlation_id(c).next, n - 1)

RECURSIVE IdsFrom(_, _)
IdsFrom(c, n) ==
  IF n = 0 THEN <<>>
  ELSE <<next_correlation_id(c).id>> \o IdsFrom(next_correlation_id(c).next, n - 1)

\* cap: the model of the metadata manager stops before the counter overflows
NoOverflow(c, n) == c >= 0 /\ c + n <= IntMax

\* ---------------------------------------------------------- metadata values
Range(s) == {s[i] : i \in 1..Len(s)}

\* Metadata::from(MetadataResponse): brokers are built by Broker::new, whose
\* api_versions is None
MetadataFrom(resp) ==
  [brokers |-> resp.brokers, gen |-> resp.gen, api |-> [b \in resp.brokers |-> "none"]]

\* Broker::with_api_versions builds a new Broker value
BrokerWithApiVersions(broker, api_versions) == api_versions

\* Metadata::with_api_versions: a new Metadata whose brokers carry the window
\* collected for them
with_api_versions(m, api_versions) ==
  [m EXCEPT !.api = [b \in m.brokers |->
      BrokerWithApiVersions(m.api[b],
                            IF b \in DOMAIN api_versions THEN api_versions[b] ELSE "none")]]

\* Metadata::with_fallback_api_versions: a new Metadata whose brokers all carry
\* the fallback window
with_fallback_api_versions(m, fallback) ==
  [m EXCEPT !.api = [b \in m.brokers |-> BrokerWithApiVersions(m.api[b], fallback)]]

\* a variant that stores the value in the newest existing cell
RcNewInPlace(h, value) == IF h = <<>> THEN <<value>> ELSE [h EXCEPT ![Len(h)] = value]

\* Rc::new(value): a fresh cell; the cells already allocated are left alone
RcNew(h, value) == Append(h, value)

\* ------------------------------------------------------- MetadataStatus
Loading(senders) == [kind |-> "Loading", senders |-> senders, metadata |-> 0]
Loaded(ref) == [kind |-> "Loaded", senders |-> <<>>, metadata |-> ref]

IdleWaiter == [st |-> "idle", queued |-> FALSE, ref |-> 0, sends |-> 0]

\* a variant that replaces the wait list by the new sender
metadata_replacing(st, ws, w) ==
  IF st.kind = "Loading"
  THEN [status |-> Loading(<<w>>),
        waiter |-> [ws EXCEPT ![w] = [st |-> "pending", queued |-> TRUE, ref |-> 0, sends |-> 0]]]
  ELSE [status |-> st,
        waiter |-> [ws EXCEPT ![w] =
                      [st |-> "ok", queued |-> FALSE, ref |-> st.metadata, sends |-> 1]]]

\* State::metadata for caller w: a new oneshot channel whose sender is pushed
\* on the wait list (Loading) or completed at once (Loaded)
metadata(st, ws, w) ==
  IF st.kind = "Loading"
  THEN [status |-> Loading(Append(st.senders, w)),
        waiter |-> [ws EXCEPT ![w] = [st |-> "pending", queued |-> TRUE, ref |-> 0, sends |-> 0]]]
  ELSE [status |-> st,
        waiter |-> [ws EXCEPT ![w] =
                      [st |-> "ok", queued |-> FALSE, ref |-> st.metadata, sends |-> 1]]]

\* a variant whose loop stops one sender short
set_metadata_skipping_last(st, ws, ref) ==
  [status |-> Loaded(ref),
   waiter |-> [w \in DOMAIN ws |->
      IF st.kind = "Loading" /\ w \in Range(SubSeq(st.senders, 1, Len(st.senders) - 1))
      THEN [st |-> "ok", queued |-> ws[w].queued, ref |-> ref, sends |-> ws[w].sends + 1]
      ELSE ws[w]]]

\* a variant that sends to the wait list and leaves the status as it was
set_metadata_waking_only(st, ws, ref) ==
  [status |-> st,
   waiter |-> [w \in DOMAIN ws |->
      IF st.kind = "Loading" /\ w \in Range(st.senders)
      THEN [st |-> "ok", queued |-> ws[w].queued, ref |-> ref, sends |-> ws[w].sends + 1]
      ELSE ws[w]]]

\* a variant that publishes the first snapshot only
set_metadata_once(st, ws, ref) ==
  [status |-> IF st.kind = "Loading" THEN Loaded(ref) ELSE st,
   waiter |-> [w \in DOMAIN ws |->
      IF st.kind = "Loading" /\ w \in Range(st.senders)
      THEN [st |-> "ok", queued |-> ws[w].queued, ref |-> ref,
            sends |-> ws[w].sends + Cardinality({i \in 1..Len(st.senders) : st.senders[i] = w})]
      ELSE ws[w]]]

\* a variant that takes a Loaded status out and leaves the default one
set_metadata_taking(st, ws, ref) ==
  [status |-> IF st.kind = "Loading" THEN Loaded(ref) ELSE Loading(<<>>),
   waiter |-> [w \in DOMAIN ws |->
      IF st.kind = "Loading" /\ w \in Range(st.senders)
      THEN [st |-> "ok", queued |-> ws[w].queued, ref |-> ref,
            sends |-> ws[w].sends + Cardinality({i \in 1..Len(st.senders) : st.senders[i] = w})]
      ELSE ws[w]]]

\* State::set_metadata: replace the status by Loaded(metadata), then send the
\* metadata to every sender of the replaced wait list
set_metadata(st, ws, ref) ==
  [status |-> Loaded(ref),
   waiter |-> [w \in DOMAIN ws |->
      IF st.kind = "Loading" /\ w \in Range(st.senders)
      THEN [st |-> "ok", queued |-> ws[w].queued, ref |-> ref,
            sends |-> ws[w].sends + Cardinality({i \in 1..Len(st.senders) : st.senders[i] = w})]
      ELSE ws[w]]]

\* --------------------------------------------------------- load sequences
\* a variant that asks the first configured host only
fetch_metadata_first_host(c, hosts) == {[addr |-> 1, id |-> IdsFrom(c, 1)[1]]}

\* Inner::fetch_metadata: one Metadata request per configured host, each with
\* its own correlation id, raced by select_ok
fetch_metadata(c, hosts) ==
  {[addr |-> a, id |-> IdsFrom(c, hosts)[a]] : a \in 1..hosts}

\* Inner::load_api_versions: one ApiVersions request per broker of the
\* metadata, joined by join_all
RECURSIVE SetToSeq(_)
SetToSeq(S) ==
  IF S = {} THEN <<>>
  ELSE LET x == CHOOSE y \in S : \A z \in S : y <= z IN <<x>> \o SetToSeq(S \ {x})

\* a variant that asks the first broker of the metadata only
load_api_versions_first_broker(c, m) ==
  {[broker |-> b, id |-> IdsFrom(c, 1)[1]] : b \in {x \in m.brokers : \A y \in m.brokers : x <= y}}

load_api_versions(c, m) ==
  LET bs == SetToSeq(m.brokers)
  IN {[broker |-> bs[i], id |-> IdsFrom(c, Len(bs))[i]] : i \in 1..Len(bs)}

\* LoadMetadata::new
LoadMetadataNew(c, cfg) ==
  [state |-> "Metadata",
   reqs |-> fetch_metadata(c, cfg.hosts),
   sentMeta |-> Cardinality(fetch_metadata(c, cfg.hosts)),
   meta |-> 0, api |-> {}, sentApi |-> 0, got |-> <<>>, result |-> 0]

\* KafkaClient::load_metadata: arm the refresh Timeout when metadata_max_age
\* is positive, then create the load
load_metadata ==
  /\ Len(loads) < MaxLoads
  /\ NoOverflow(correlation_id, config.hosts)
  /\ timers' = IF config.metadata_max_age > 0 THEN timers + 1 ELSE timers
  /\ loads' = Append(loads, LoadMetadataNew(correlation_id, config))
  /\ correlation_id' = CounterAfter(correlation_id, config.hosts)
  /\ UNCHANGED <<restVars, prodVars, config, cluster, status, heap, waiter, panicked, issued, inflight>>

Configs ==
  [hosts : Hosts, api_version_request : BOOLEAN, metadata_max_age : {0, 1}]

\* ProducerBatch::new
ProducerBatchNew(t) == [recs |-> <<>>, used |-> 0, last_push_time |-> t]

NoItem == [tp |-> 0, batch |-> ProducerBatchNew(0)]
NoFlush == [force |-> FALSE, state |-> "none", item |-> NoItem]

\* RecordAccumulator::new: no batches; nothing sent, armed or flushed yet
NewProducer ==
  /\ now = 0
  /\ batches = [tp \in TPs |-> <<>>]
  /\ records = <<>>
  /\ ltimers = {}
  /\ flushes = [f \in FlushIds |-> NoFlush]

\* no Sender yet: nothing pushed, drained or answered, the snapshot names the
\* leader
NoSender == [state |-> "idle", item |-> NoItem, attempts |-> 0, addr |-> 0, last_err |-> "none"]

NewSender ==
  /\ futs = <<>>
  /\ sender = NoSender
  /\ log_end = [tp \in TPs |-> 0]
  /\ snapshot = 1
  /\ leader = 1
  /\ refresh = FALSE

\* no client operation in progress
NoOp == [kind |-> "none", reqs |-> <<>>, result |-> "none", at |-> 0]

NewService ==
  /\ op = NoOp
  /\ table = {}

\* Option values: None is the empty sequence, Some(x) is <<x>>
Opt(S) == {<<>>} \cup {<<x>> : x \in S}

\* topic 1 is in the metadata snapshot with MaxParts partitions, topic 2 is not
Topics == {1, 2}
PartitionIds == 0..(MaxParts - 1)
PushTPs == Topics \X PartitionIds

\* the items a caller may give as key or value; item 0 is one the serializer
\* rejects
Items == {0, 1}

\* the records a caller may send: no partition, a negative one or the last
\* one of the topic; no key or value, or one of the items
ProducerRecords ==
  [topic_name : Topics, partition : Opt({-1, MaxParts - 1}), key : Opt(Items),
   value : Opt(Items)]

NoRecord == [topic_name |-> 0, partition |-> <<>>, key |-> <<>>, value |-> <<>>]

\* DefaultPartitioner::new and an empty accumulator
NewPartitioner ==
  /\ acc = [tp \in PushTPs |-> <<>>]
  /\ counter = 0
  /\ pushed = <<>>
  /\ last_record = NoRecord

\* a connection that has just become Ready: nothing sent yet
NewConnection ==
  /\ conn = "Ready"
  /\ pending = {}
  /\ wire = {}
  /\ calls = <<>>

\* no checkout made yet
NoCheckout == [conn |-> 0, idle_at |-> 0, at |-> 0]

\* an empty pool
NewPool ==
  /\ idle = {}
  /\ borrowed = {}
  /\ clock = 0
  /\ checkout = NoCheckout

\* ProduceResponseDecoder::new on an empty buffer: nothing decoded yet
NewDecoder ==
  /\ src = <<>>
  /\ inbound = <<>>
  /\ decoder = [version |-> 0, out |-> "none", value |-> <<>>, frames |-> 0, waited |-> FALSE]
  /\ response = <<>>

\* Subscriptions::new
NewSubscriptions ==
  subscriptions = [subscription |-> {}, group_subscription |-> {},
                   call |-> "new", topic_names |-> <<>>]

RestInit ==
  /\ NewSender /\ NewService /\ NewPartitioner /\ NewConnection /\ NewPool
  /\ NewDecoder /\ NewSubscriptions

\* KafkaClient::from_config: State::default, then load_metadata() is spawned
Init ==
  /\ config \in Configs
  /\ cluster \in 0..MaxBrokers
  /\ status = Loading(<<>>)
  /\ heap = <<>>
  /\ waiter = [w \in Callers |-> IdleWaiter]
  /\ panicked = FALSE
  /\ correlation_id = CounterAfter(0, config.hosts)
  /\ loads = <<LoadMetadataNew(0, config)>>
  /\ timers = IF config.metadata_max_age > 0 THEN 1 ELSE 0
  /\ issued = <<>>
  /\ inflight = {}
  /\ NewProducer
  /\ RestInit

\* an explicit Client::load_metadata call
LoadMetadata == load_metadata

\* the refresh Timeout armed by load_metadata expires: and_then runs
\* LoadMetadata::new, which arms no further Timeout
RefreshTimerFires ==
  /\ timers > 0
  /\ Len(loads) < MaxLoads
  /\ NoOverflow(correlation_id, config.hosts)
  /\ timers' = timers - 1
  /\ loads' = Append(loads, LoadMetadataNew(correlation_id, config))
  /\ correlation_id' = CounterAfter(correlation_id, config.hosts)
  /\ UNCHANGED <<restVars, prodVars, config, cluster, status, heap, waiter, panicked, issued, inflight>>

\* KafkaClient::metadata called by caller w
GetMetadata(w) ==
  /\ waiter[w].st = "idle"
  /\ \A v \in Callers : v < w => waiter[v].st # "idle"
  /\ status' = metadata(status, waiter, w).status
  /\ waiter' = metadata(status, waiter, w).waiter
  /\ UNCHANGED <<restVars, prodVars, config, cluster, heap, loads, timers, corrVars>>

\* LoadMetadata::poll, arm Loading::Finished: publish and complete the future
Finished(l, h) ==
  /\ heap' = h
  /\ status' = set_metadata(status, waiter, Len(h)).status
  /\ waiter' = set_metadata(status, waiter, Len(h)).waiter
  /\ loads' = [loads EXCEPT ![l] = [@ EXCEPT !.state = "Done", !.reqs = {}, !.api = {},
                                               !.result = Len(h)]]

\* a variant that asks the brokers for their API versions whatever the
\* configuration says
MetadataReadyAsking(l, rq, resp) ==
  /\ loads[l].state = "Metadata"
  /\ rq \in loads[l].reqs
  /\ LET h1 == RcNew(heap, MetadataFrom(resp))
         m == Len(h1)
     IN IF TRUE
        THEN LET rqs == load_api_versions(correlation_id, h1[m])
             IN /\ NoOverflow(correlation_id, Cardinality(rqs))
                /\ correlation_id' = CounterAfter(correlation_id, Cardinality(rqs))
                /\ IF rqs = {}
                   THEN Finished(l, RcNew(h1, with_api_versions(h1[m], <<>>)))
                   ELSE /\ heap' = h1
                        /\ loads' = [loads EXCEPT ![l] =
                               [@ EXCEPT !.state = "ApiVersions", !.reqs = {}, !.meta = m,
                                         !.api = rqs, !.sentApi = Cardinality(rqs)]]
                        /\ UNCHANGED <<status, waiter>>
        ELSE /\ Finished(l, RcNew(h1, with_fallback_api_versions(h1[m], "fallback")))
             /\ UNCHANGED correlation_id
  /\ UNCHANGED <<restVars, prodVars, config, cluster, timers, panicked, issued, inflight>>

\* LoadMetadata::poll, arm Loading::Metadata with Ok(Ready): one request of
\* the select_ok race is answered, the other requests are dropped
MetadataReady(l, rq, resp) ==
  /\ loads[l].state = "Metadata"
  /\ rq \in loads[l].reqs
  /\ LET h1 == RcNew(heap, MetadataFrom(resp))
         m == Len(h1)
     IN IF config.api_version_request
        THEN LET rqs == load_api_versions(correlation_id, h1[m])
             IN /\ NoOverflow(correlation_id, Cardinality(rqs))
                /\ correlation_id' = CounterAfter(correlation_id, Cardinality(rqs))
                /\ IF rqs = {}
                   THEN Finished(l, RcNew(h1, with_api_versions(h1[m], <<>>)))
                   ELSE /\ heap' = h1
                        /\ loads' = [loads EXCEPT ![l] =
                               [@ EXCEPT !.state = "ApiVersions", !.reqs = {}, !.meta = m,
                                         !.api = rqs, !.sentApi = Cardinality(rqs)]]
                        /\ UNCHANGED <<status, waiter>>
        ELSE /\ Finished(l, RcNew(h1, with_fallback_api_versions(h1[m], "fallback")))
             /\ UNCHANGED correlation_id
  /\ UNCHANGED <<restVars, prodVars, config, cluster, timers, panicked, issued, inflight>>

\* one request of the select_ok race fails; the load fails with Err(err) when
\* it was the last one, and poll returns without touching the State
MetadataFails(l, rq) ==
  /\ loads[l].state = "Metadata"
  /\ rq \in loads[l].reqs
  /\ loads' = [loads EXCEPT ![l] =
        [@ EXCEPT !.reqs = @ \ {rq},
                  !.state = IF loads[l].reqs = {rq} THEN "Failed" ELSE @]]
  /\ UNCHANGED <<restVars, prodVars, config, cluster, status, heap, waiter, timers, corrVars>>

\* LoadMetadata::poll, arm Loading::ApiVersions: one request of join_all is
\* answered; with the last answer the new snapshot is built and published
ApiVersionsReady(l, rq, window) ==
  /\ loads[l].state = "ApiVersions"
  /\ rq \in loads[l].api
  /\ LET got == [b \in DOMAIN loads[l].got \cup {rq.broker} |->
                    IF b = rq.broker THEN window ELSE loads[l].got[b]]
     IN IF loads[l].api = {rq}
        THEN Finished(l, RcNew(heap, with_api_versions(heap[loads[l].meta], got)))
        ELSE /\ loads' = [loads EXCEPT ![l] = [@ EXCEPT !.api = @ \ {rq}, !.got = got]]
             /\ UNCHANGED <<status, heap, waiter>>
  /\ UNCHANGED <<restVars, prodVars, config, cluster, timers, corrVars>>

\* one request of join_all fails: the load fails with Err(err), the other
\* requests are dropped, and poll returns without touching the State
ApiVersionsFails(l, rq) ==
  /\ loads[l].state = "ApiVersions"
  /\ rq \in loads[l].api
  /\ loads' = [loads EXCEPT ![l] = [@ EXCEPT !.state = "Failed", !.api = {}]]
  /\ UNCHANGED <<restVars, prodVars, config, cluster, status, heap, waiter, timers, corrVars>>

\* the Metadata response of the cluster to a request of load l, and the
\* ApiVersions response of broker b
MetadataResponse(l) == [brokers |-> 1..cluster, gen |-> l]
ApiVersionsResponse(b) == <<"window", b>>

Next ==
  \/ LoadMetadata
  \/ RefreshTimerFires
  \/ \E w \in Callers : GetMetadata(w)
  \/ \E l \in 1..Len(loads) : \E rq \in loads[l].reqs :
        MetadataReady(l, rq, MetadataResponse(l))
  \/ \E l \in 1..Len(loads) : \E rq \in loads[l].reqs : MetadataFails(l, rq)
  \/ \E l \in 1..Len(loads) : \E rq \in loads[l].api :
        ApiVersionsReady(l, rq, ApiVersionsResponse(rq.broker))
  \/ \E l \in 1..Len(loads) : \E rq \in loads[l].api : ApiVersionsFails(l, rq)

Spec == Init /\ [][Next]_vars

\* ------------------------------------------- loads of a larger cluster
\* one bootstrap host, no refresh timer, a cluster of up to MaxBrokers + 1
\* brokers, with and without api_version_request
LoadInit ==
  /\ config \in [hosts : {1}, api_version_request : BOOLEAN, metadata_max_age : {0}]
  /\ cluster \in 0..(MaxBrokers + 1)
  /\ status = Loading(<<>>)
  /\ heap = <<>>
  /\ waiter = [w \in Callers |-> IdleWaiter]
  /\ panicked = FALSE
  /\ correlation_id = CounterAfter(0, config.hosts)
  /\ loads = <<LoadMetadataNew(0, config)>>
  /\ timers = 0
  /\ issued = <<>>
  /\ inflight = {}
  /\ NewProducer
  /\ RestInit

LoadNext ==
  \/ LoadMetadata
  \/ \E w \in Callers : GetMetadata(w)
  \/ \E l \in 1..Len(loads) : \E rq \in loads[l].reqs :
        MetadataReady(l, rq, MetadataResponse(l))
  \/ \E l \in 1..Len(loads) : \E rq \in loads[l].reqs : MetadataFails(l, rq)
  \/ \E l \in 1..Len(loads) : \E rq \in loads[l].api :
        ApiVersionsReady(l, rq, ApiVersionsResponse(rq.broker))
  \/ \E l \in 1..Len(loads) : \E rq \in loads[l].api : ApiVersionsFails(l, rq)

SpecLoad == LoadInit /\ [][LoadNext]_vars

\* --------------------------------------- loads of several bootstrap hosts
\* up to MaxHosts bootstrap hosts, no ApiVersions stage, no refresh timer:
\* the Metadata stage of the loads alone, with the callers waiting for it
BootInit ==
  /\ config \in [hosts : Hosts, api_version_request : {FALSE}, metadata_max_age : {0}]
  /\ cluster \in 0..MaxBrokers
  /\ status = Loading(<<>>)
  /\ heap = <<>>
  /\ waiter = [w \in Callers |-> IdleWaiter]
  /\ panicked = FALSE
  /\ correlation_id = CounterAfter(0, config.hosts)
  /\ loads = <<LoadMetadataNew(0, config)>>
  /\ timers = 0
  /\ issued = <<>>
  /\ inflight = {}
  /\ NewProducer
  /\ RestInit

BootNext ==
  \/ LoadMetadata
  \/ \E w \in Callers : GetMetadata(w)
  \/ \E l \in 1..Len(loads) : \E rq \in loads[l].reqs :
        MetadataReady(l, rq, MetadataResponse(l))
  \/ \E l \in 1..Len(loads) : \E rq \in loads[l].reqs : MetadataFails(l, rq)

SpecBoot == BootInit /\ [][BootNext]_vars

\* ------------------------------------------------ the counter on its own
MaxCalls == 2^CorrBits + 2

\* State::default with no load sequence started
DefaultState ==
  /\ config = [hosts |-> 1, api_version_request |-> FALSE, metadata_max_age |-> 0]
  /\ cluster = 0
  /\ status = Loading(<<>>)
  /\ heap = <<>>
  /\ loads = <<>>
  /\ waiter = [w \in Callers |-> IdleWaiter]
  /\ timers = 0
  /\ correlation_id = 0
  /\ panicked = FALSE
  /\ issued = <<>>
  /\ inflight = {}

CorrInit == DefaultState /\ NewProducer /\ RestInit

\* a request is built with Inner::next_correlation_id and handed to the
\* service; on overflow of the subtraction this is the release build
IssueRequest ==
  /\ ~panicked
  /\ Len(issued) < MaxCalls
  /\ Cardinality(inflight) < MaxInflight
  /\ correlation_id' = next_correlation_id(correlation_id).next
  /\ issued' = Append(issued, next_correlation_id(correlation_id).id)
  /\ inflight' = inflight \cup {Len(issued) + 1}
  /\ UNCHANGED <<restVars, prodVars, metaVars, panicked>>

\* the same call in a debug build when `self.correlation_id - 1` overflows:
\* the counter has been stored, the subtraction panics, no id is returned
IssueRequestPanics ==
  /\ ~panicked
  /\ Len(issued) < MaxCalls
  /\ next_correlation_id(correlation_id).overflow
  /\ correlation_id' = next_correlation_id(correlation_id).next
  /\ panicked' = TRUE
  /\ UNCHANGED <<restVars, prodVars, metaVars, issued, inflight>>

\* the response of an in-flight request arrives, or its timeout drops it
CompleteRequest(i) ==
  /\ i \in inflight
  /\ inflight' = inflight \ {i}
  /\ UNCHANGED <<restVars, prodVars, metaVars, correlation_id, panicked, issued>>

CorrNext ==
  \/ IssueRequest
  \/ IssueRequestPanics
  \/ \E i \in inflight : CompleteRequest(i)

SpecCorr == CorrInit /\ [][CorrNext]_vars

\* ------------------------------------------------- accumulator and producer
\* MessageSetBuilder::push succeeds when the record fits under the write limit
BuilderPush(used, size, write_limit) == used + size <= write_limit

\* MessageSetBuilder::is_full: no further record fits under the write limit
BuilderIsFull(used, write_limit) == used >= write_limit

\* ProducerBatch::is_full
is_full(batch) == BuilderIsFull(batch.used, BatchSize)

\* a variant that puts the thunk of the new record first
ProducerBatchPushFront(batch, r, size, t) ==
  [batch EXCEPT !.recs = <<r>> \o @, !.used = @ + size, !.last_push_time = t]

\* a variant that accepts the record without pushing its thunk
ProducerBatchPushNoThunk(batch, r, size, t) ==
  [batch EXCEPT !.used = @ + size, !.last_push_time = t]

\* ProducerBatch::push_record, once builder.push has accepted the record: one
\* thunk is pushed and last_push_time is set
ProducerBatchPush(batch, r, size, t) ==
  [batch EXCEPT !.recs = Append(@, r), !.used = @ + size, !.last_push_time = t]

\* the batch_full and new_batch flags carried by the PushRecord
PushRecordFlags(batch, ok, new_batch) ==
  [is_full |-> ok /\ is_full(batch), new_batch |-> new_batch]

\* a variant that tries the head batch of the queue instead of its tail
push_record_into_head(bs, tp, r, size, t) ==
  LET q == bs[tp]
  IN IF q # <<>> /\ BuilderPush(q[1].used, size, BatchSize)
     THEN LET batch == ProducerBatchPush(q[1], r, size, t)
          IN [batches |-> [bs EXCEPT ![tp] = [q EXCEPT ![1] = batch]],
              ok |-> TRUE,
              flags |-> PushRecordFlags(batch, TRUE, FALSE)]
     ELSE LET ok == BuilderPush(0, size, BatchSize)
              batch == IF ok THEN ProducerBatchPush(ProducerBatchNew(t), r, size, t)
                       ELSE ProducerBatchNew(t)
          IN [batches |-> [bs EXCEPT ![tp] = Append(q, batch)],
              ok |-> ok,
              flags |-> PushRecordFlags(batch, ok, TRUE)]

\* RecordAccumulator::push_record for record r of the given size at time t
push_record(bs, tp, r, size, t) ==
  LET q == bs[tp]
  IN IF q # <<>> /\ BuilderPush(q[Len(q)].used, size, BatchSize)
     THEN LET batch == ProducerBatchPush(q[Len(q)], r, size, t)
          IN [batches |-> [bs EXCEPT ![tp] = [q EXCEPT ![Len(q)] = batch]],
              ok |-> TRUE,
              flags |-> PushRecordFlags(batch, TRUE, FALSE)]
     ELSE LET ok == BuilderPush(0, size, BatchSize)
              batch == IF ok THEN ProducerBatchPush(ProducerBatchNew(t), r, size, t)
                       ELSE ProducerBatchNew(t)
          IN [batches |-> [bs EXCEPT ![tp] = Append(q, batch)],
              ok |-> ok,
              flags |-> PushRecordFlags(batch, ok, TRUE)]

\* RecordAccumulator::poll: the topic-partitions whose head batch is yielded,
\* those with more than one batch or with a full back batch
ReadyTPs(bs) ==
  {tp \in DOMAIN bs : Len(bs[tp]) > 1 \/ (bs[tp] # <<>> /\ is_full(bs[tp][Len(bs[tp])]))}

\* a variant that yields the newest batch of the queue instead of the oldest
poll_back(bs) ==
  IF ReadyTPs(bs) = {}
  THEN {[ready |-> FALSE, item |-> NoItem, batches |-> bs]}
  ELSE {[ready |-> TRUE, item |-> [tp |-> tp, batch |-> bs[tp][Len(bs[tp])]],
         batches |-> [bs EXCEPT ![tp] = SubSeq(@, 1, Len(@) - 1)]] : tp \in ReadyTPs(bs)}

\* RecordAccumulator::poll: the possible results, one per topic-partition the
\* HashMap iteration may reach first; NotReady when there is none
poll(bs) ==
  IF ReadyTPs(bs) = {}
  THEN {[ready |-> FALSE, item |-> NoItem, batches |-> bs]}
  ELSE {[ready |-> TRUE, item |-> [tp |-> tp, batch |-> Head(bs[tp])],
         batches |-> [bs EXCEPT ![tp] = Tail(@)]] : tp \in ReadyTPs(bs)}

\* Inner::flush_batches: a new Flush future over the accumulator's batches
flush_batches(force) == [force |-> force, state |-> "spawned", item |-> NoItem]

\* a variant that starts the flush for a new batch instead
send_flushes_on_new_batch(push) == push.flags.new_batch

\* KafkaProducer::send, line 119: a full batch starts a flush at once
send_flushes(push) == push.flags.is_full

\* a variant that arms a linger Timeout for every record
send_arms_timer_always(push) == TRUE

\* KafkaProducer::send, line 129: a new batch arms a linger Timeout
send_arms_timer(push) == push.flags.new_batch

\* the for_each of a Flush polls the accumulator: it takes the next batch and
\* starts its Sender, or parks on NotReady
PollBatches(f, fl) ==
  \E res \in poll(batches) :
    /\ batches' = res.batches
    /\ flushes' = [fl EXCEPT ![f] = [@ EXCEPT !.state = IF res.ready THEN "sending" ELSE "parked",
                                               !.item = res.item]]

\* KafkaProducer::send of a record for tp with the given serialized size,
\* by a caller that sends at most limit records
send(tp, size, limit) ==
  /\ Len(records) < limit
  /\ \A q \in TPs : q < tp => \E r \in 1..Len(records) : records[r].tp = q
  /\ LET r == Len(records) + 1
         push == push_record(batches, tp, r, size, now)
     IN /\ batches' = push.batches
        /\ records' = Append(records,
              [tp |-> tp, is_full |-> push.flags.is_full,
               new_batch |-> push.flags.new_batch,
               st |-> IF push.ok THEN "pending" ELSE "err"])
        /\ flushes' = IF send_flushes(push)
                      THEN [flushes EXCEPT ![<<"full", r>>] = flush_batches(FALSE)]
                      ELSE flushes
        /\ ltimers' = IF send_arms_timer(push)
                      THEN ltimers \cup {[rec |-> r, deadline |-> now + Linger]}
                      ELSE ltimers
  /\ UNCHANGED <<now, metaVars, corrVars, restVars>>

Send(tp, size) == send(tp, size, MaxRecords)

\* KafkaProducer::flush, the k-th call: the Flush future is inert until its
\* caller polls it, so the call is taken together with that first poll
Flush(k) ==
  /\ flushes[<<"user", k>>].state = "none"
  /\ \A j \in 1..(k - 1) : flushes[<<"user", j>>].state # "none"
  /\ PollBatches(<<"user", k>>, [flushes EXCEPT ![<<"user", k>>] = flush_batches(TRUE)])
  /\ UNCHANGED <<now, records, ltimers, metaVars, corrVars, restVars>>

\* a linger Timeout expires: its and_then continuation calls
\* flush_batches(false) and polls the new Flush in the same turn
LingerTimerFires(t) ==
  /\ t \in ltimers
  /\ now >= t.deadline
  /\ ltimers' = ltimers \ {t}
  /\ PollBatches(<<"linger", t.rec>>,
                 [flushes EXCEPT ![<<"linger", t.rec>>] = flush_batches(FALSE)])
  /\ UNCHANGED <<now, records, metaVars, corrVars, restVars>>

\* the first poll of a Flush future
FlushPoll(f) ==
  /\ flushes[f].state = "spawned"
  /\ PollBatches(f, flushes)
  /\ UNCHANGED <<now, records, ltimers, metaVars, corrVars, restVars>>

\* the Sender of the batch a Flush took finishes: the thunks of the batch are
\* completed and the for_each polls the accumulator again
SendBatchDone(f) ==
  /\ flushes[f].state = "sending"
  /\ records' = [r \in DOMAIN records |->
        IF r \in Range(flushes[f].item.batch.recs) THEN [records[r] EXCEPT !.st = "ok"]
        ELSE records[r]]
  /\ PollBatches(f, flushes)
  /\ UNCHANGED <<now, ltimers, metaVars, corrVars, restVars>>

\* a variant whose for_each goes on to the next batch after a failed send
SendBatchFailsContinuing(f) ==
  /\ flushes[f].state = "sending"
  /\ records' = [r \in DOMAIN records |->
        IF r \in Range(flushes[f].item.batch.recs) THEN [records[r] EXCEPT !.st = "err"]
        ELSE records[r]]
  /\ PollBatches(f, flushes)
  /\ UNCHANGED <<now, ltimers, metaVars, corrVars, restVars>>

\* the Sender of the batch fails for good: the for_each ends with the error
SendBatchFails(f) ==
  /\ flushes[f].state = "sending"
  /\ records' = [r \in DOMAIN records |->
        IF r \in Range(flushes[f].item.batch.recs) THEN [records[r] EXCEPT !.st = "err"]
        ELSE records[r]]
  /\ flushes' = [flushes EXCEPT ![f] = [@ EXCEPT !.state = "failed", !.item = NoItem]]
  /\ UNCHANGED <<now, batches, ltimers, metaVars, corrVars, restVars>>

\* time passes
Tick ==
  /\ now < MaxTime
  /\ now' = now + 1
  /\ UNCHANGED <<batches, records, ltimers, flushes, metaVars, corrVars, restVars>>

ProdInit == DefaultState /\ NewProducer /\ RestInit

ProdNext ==
  \/ \E tp \in TPs : \E size \in RecSizes : Send(tp, size)
  \/ \E k \in 1..MaxUserFlushes : Flush(k)
  \/ \E t \in ltimers : LingerTimerFires(t)
  \/ \E f \in FlushIds : FlushPoll(f)
  \/ \E f \in FlushIds : SendBatchDone(f)
  \/ \E f \in FlushIds : SendBatchFails(f)
  \/ Tick

SpecProd == ProdInit /\ [][ProdNext]_vars

\* ------------------------------------- the send path with silent brokers
\* a caller that sends up to MaxPushes records within the linger of the
\* first one, while no Produce request is answered: the batches drained by
\* the flushes of full batches stay with their Sender
AccFlushIds == ({"full", "linger"} \X (1..MaxPushes)) \cup ({"user"} \X (1..MaxUserFlushes))

AccInit ==
  /\ DefaultState
  /\ now = 0
  /\ batches = [tp \in TPs |-> <<>>]
  /\ records = <<>>
  /\ ltimers = {}
  /\ flushes = [f \in AccFlushIds |-> NoFlush]
  /\ RestInit

AccNext ==
  \/ \E tp \in TPs : \E size \in RecSizes : send(tp, size, MaxPushes)
  \/ \E f \in AccFlushIds : FlushPoll(f)

SpecAcc == AccInit /\ [][AccNext]_vars

\* ----------------------------------------- the send path with answers
\* the same caller while the Sender of each drained batch finishes or fails
\* for good: the for_each of a Flush goes from one batch to the next
DrainNext ==
  \/ \E tp \in TPs : \E size \in RecSizes : send(tp, size, MaxPushes)
  \/ \E f \in AccFlushIds : FlushPoll(f)
  \/ \E f \in AccFlushIds : SendBatchDone(f)
  \/ \E f \in AccFlushIds : SendBatchFails(f)

SpecDrain == AccInit /\ [][DrainNext]_vars

\* ------------------------------------------------- sender and its retries
\* the errors a send_batch attempt can end with
Retryable ==
  {"ConnectionLost", "RequestTimeout", "NotLeaderForPartition", "LeaderNotAvailable",
   "NetworkException"}
NonRetryable == {"MessageTooLarge", "InvalidTopicException", "UnexpectedResponse"}
\* error codes a broker puts in a partition status of a Produce response
BrokerErrors ==
  {"NotLeaderForPartition", "LeaderNotAvailable", "NetworkException", "MessageTooLarge",
   "InvalidTopicException"}
\* errors of the service call itself, the last one raised by
\* Inner::produce_records for a response of another kind
ServiceErrors == {"ConnectionLost", "RequestTimeout", "UnexpectedResponse"}

\* the future and the thunk of record r pushed for tp; thunk is "none" when
\* the push failed
NewFuture(tp, ok) ==
  [tp |-> tp, held |-> TRUE, thunk |-> IF ok THEN "queued" ELSE "none", offset |-> -1]

\* a variant of the drop that takes the record's thunk out of its batch
drop_future_cancelling(bs, r) ==
  [tp \in DOMAIN bs |->
     [i \in DOMAIN bs[tp] |->
        [bs[tp][i] EXCEPT !.recs = SelectSeq(@, LAMBDA x : x # r)]]]

\* dropping a FutureRecordMetadata drops its oneshot Receiver only: the
\* accumulator's batches are not reachable from it
drop_future(bs, r) == bs

\* the position of record r in the thunks of a batch
ThunkIndex(recs, r) == CHOOSE i \in DOMAIN recs : recs[i] = r

\* the Sender fulfils every thunk of the batch with base offset + index
FulfilThunks(fs, recs, base) ==
  [r \in DOMAIN fs |->
     IF r \in Range(recs)
     THEN [fs[r] EXCEPT !.thunk = "done", !.offset = base + ThunkIndex(recs, r) - 1]
     ELSE fs[r]]

\* the Sender fails every thunk of the batch, or drops them with the batch
EndThunks(fs, recs, how) ==
  [r \in DOMAIN fs |-> IF r \in Range(recs) THEN [fs[r] EXCEPT !.thunk = how] ELSE fs[r]]

\* Retry::spawn(handle, retry_strategy, || sender.send_batch()): a failed
\* attempt is repeated while the strategy yields a delay, whatever the error
retry_spawn(attempts, err) == attempts < MaxAttempts

\* Inner::produce_records: the request goes to the leader the snapshot
\* handed in names
leader_for(snap, addr) == snap

\* SpecSend: RecordAccumulator::push_record for tp
PushRecord(tp, size) ==
  /\ Len(futs) < MaxRecords
  /\ \A q \in TPs : q < tp => \E r \in 1..Len(futs) : futs[r].tp = q
  /\ LET r == Len(futs) + 1
         push == push_record(batches, tp, r, size, 0)
     IN /\ batches' = push.batches
        /\ futs' = Append(futs, NewFuture(tp, push.ok))
  /\ UNCHANGED <<sender, log_end, snapshot, leader, refresh>>
  /\ UNCHANGED <<now, records, ltimers, flushes, metaVars, corrVars, netVars, opsVars, pushVars>>

\* the caller drops the future of record r
DropFuture(r) ==
  /\ r \in DOMAIN futs
  /\ futs[r].held
  /\ futs' = [futs EXCEPT ![r].held = FALSE]
  /\ batches' = drop_future(batches, r)
  /\ UNCHANGED <<sender, log_end, snapshot, leader, refresh>>
  /\ UNCHANGED <<now, records, ltimers, flushes, metaVars, corrVars, netVars, opsVars, pushVars>>

\* the for_each of a Flush takes the next batch and Sender::new succeeds
TakeBatch ==
  /\ sender.state = "idle"
  /\ \E res \in poll(batches) :
       /\ res.ready
       /\ batches' = res.batches
       /\ sender' = [NoSender EXCEPT !.state = "ready", !.item = res.item]
  /\ UNCHANGED <<futs, log_end, snapshot, leader, refresh>>
  /\ UNCHANGED <<now, records, ltimers, flushes, metaVars, corrVars, netVars, opsVars, pushVars>>

\* the for_each takes the next batch and Sender::new fails: the batch is
\* dropped with its thunks and the Flush ends with the error
SenderNewFails ==
  /\ sender.state = "idle"
  /\ \E res \in poll(batches) :
       /\ res.ready
       /\ batches' = res.batches
       /\ futs' = EndThunks(futs, res.item.batch.recs, "canceled")
  /\ UNCHANGED <<sender, log_end, snapshot, leader, refresh>>
  /\ UNCHANGED <<now, records, ltimers, flushes, metaVars, corrVars, netVars, opsVars, pushVars>>

\* an attempt of Retry::spawn, the first or the one after a backoff:
\* send_batch calls KafkaClient::produce_records, which resolves the current
\* snapshot and sends the request to the leader it names
SendBatch ==
  /\ sender.state \in {"ready", "backoff"}
  /\ sender' = [sender EXCEPT !.state = "inflight", !.attempts = @ + 1,
                              !.addr = leader_for(snapshot, sender.addr)]
  /\ UNCHANGED <<batches, futs, log_end, snapshot, leader, refresh>>
  /\ UNCHANGED <<now, records, ltimers, flushes, metaVars, corrVars, netVars, opsVars, pushVars>>

\* a failed attempt: Retry::spawn repeats it or ends with the error, and the
\* batch is then dropped with the Sender
AttemptFailed(err) ==
  IF retry_spawn(sender.attempts, err)
  THEN /\ sender' = [sender EXCEPT !.state = "backoff", !.last_err = err]
       /\ futs' = futs
  ELSE /\ sender' = NoSender
       /\ futs' = EndThunks(futs, sender.item.batch.recs, "canceled")

\* the leader answers the Produce request without error; the idle sender
\* keeps the batch it has answered
ProduceOk ==
  /\ sender.state = "inflight"
  /\ sender.addr = leader
  /\ futs' = FulfilThunks(futs, sender.item.batch.recs, log_end[sender.item.tp])
  /\ log_end' = [log_end EXCEPT ![sender.item.tp] = @ + Len(sender.item.batch.recs)]
  /\ sender' = [NoSender EXCEPT !.item = sender.item]
  /\ UNCHANGED <<batches, snapshot, leader, refresh>>
  /\ UNCHANGED <<now, records, ltimers, flushes, metaVars, corrVars, netVars, opsVars, pushVars>>

\* the broker answers with an error code for the partition: a retryable one
\* fails the attempt, NotLeaderForPartition also triggers a metadata refresh;
\* any other fails the thunks and ends the send
ProduceBrokerError(code) ==
  /\ sender.state = "inflight"
  /\ (code = "NotLeaderForPartition") = (sender.addr # leader)
  /\ IF code \in Retryable
     THEN /\ AttemptFailed(code)
          /\ refresh' = (refresh \/ code = "NotLeaderForPartition")
     ELSE /\ futs' = EndThunks(futs, sender.item.batch.recs, "failed")
          /\ sender' = NoSender
          /\ refresh' = refresh
  /\ UNCHANGED <<batches, log_end, snapshot, leader>>
  /\ UNCHANGED <<now, records, ltimers, flushes, metaVars, corrVars, netVars, opsVars, pushVars>>

\* the service call fails: the error propagates through send_batch
ProduceServiceError(kind) ==
  /\ sender.state = "inflight"
  /\ AttemptFailed(kind)
  /\ UNCHANGED <<batches, log_end, snapshot, leader, refresh>>
  /\ UNCHANGED <<now, records, ltimers, flushes, metaVars, corrVars, netVars, opsVars, pushVars>>

\* the refresh ends: set_metadata publishes a snapshot naming the leader
RefreshDone ==
  /\ refresh
  /\ refresh' = FALSE
  /\ snapshot' = leader
  /\ UNCHANGED <<batches, futs, sender, log_end, leader>>
  /\ UNCHANGED <<now, records, ltimers, flushes, metaVars, corrVars, netVars, opsVars, pushVars>>

\* the cluster elects the next broker as leader
LeaderMoves ==
  /\ leader < MaxNodes
  /\ leader' = leader + 1
  /\ UNCHANGED <<batches, futs, sender, log_end, snapshot, refresh>>
  /\ UNCHANGED <<now, records, ltimers, flushes, metaVars, corrVars, netVars, opsVars, pushVars>>

SendInit == DefaultState /\ NewProducer /\ RestInit

SendNext ==
  \/ \E tp \in TPs : \E size \in RecSizes : PushRecord(tp, size)
  \/ \E r \in 1..MaxRecords : DropFuture(r)
  \/ TakeBatch
  \/ SenderNewFails
  \/ SendBatch
  \/ ProduceOk
  \/ \E code \in BrokerErrors : ProduceBrokerError(code)
  \/ \E kind \in ServiceErrors : ProduceServiceError(kind)
  \/ RefreshDone
  \/ LeaderMoves

SpecSend == SendInit /\ [][SendNext]_vars

\* ------------------------------------- a snapshot without leader for the tp
\* Inner::produce_records, lines 294-305: the address the Produce request is
\* sent to. snap = 0 stands for a snapshot in which leader_for(tp) is None:
\* map_or_else then takes the first configured bootstrap host, which is the
\* address of node 1
produce_addr(snap) == IF snap = 0 THEN 1 ELSE snap

\* an attempt of the send: KafkaClient::produce_records resolves the snapshot
\* and Inner::produce_records calls the service with the address chosen
ProduceRecords ==
  /\ sender.state \in {"ready", "backoff"}
  /\ sender' = [sender EXCEPT !.state = "inflight", !.attempts = @ + 1,
                              !.addr = produce_addr(snapshot)]
  /\ UNCHANGED <<batches, futs, log_end, snapshot, leader, refresh>>
  /\ UNCHANGED <<now, records, ltimers, flushes, metaVars, corrVars, netVars, opsVars, pushVars>>

\* the published snapshot may know no leader for the topic-partition
LeadInit ==
  /\ DefaultState /\ NewProducer
  /\ NewService /\ NewPartitioner /\ NewConnection /\ NewPool
  /\ NewDecoder /\ NewSubscriptions
  /\ futs = <<>>
  /\ sender = NoSender
  /\ log_end = [tp \in TPs |-> 0]
  /\ snapshot \in {0, 1}
  /\ leader = 1
  /\ refresh = FALSE

LeadNext ==
  \/ \E tp \in TPs : \E size \in RecSizes : PushRecord(tp, size)
  \/ TakeBatch
  \/ ProduceRecords
  \/ ProduceOk
  \/ \E code \in BrokerErrors : ProduceBrokerError(code)
  \/ \E kind \in ServiceErrors : ProduceServiceError(kind)
  \/ RefreshDone
  \/ LeaderMoves

SpecLead == LeadInit /\ [][LeadNext]_vars

\* ------------------------------------------------------ client operations
\* the kinds of request and of decoded response
Kinds == {"Metadata", "ApiVersions", "Produce", "ListOffsets"}

\* how an operation combines its requests: fetch_metadata races one request
\* per host with select_ok, fetch_offsets joins one per broker with join_all,
\* fetch_api_versions and produce_records make a single call
Combinator(kind) ==
  CASE kind = "Metadata" -> "select_ok"
    [] kind = "ListOffsets" -> "join_all"
    [] OTHER -> "single"

\* the number of requests an operation of the kind may issue
Fanout(kind) ==
  CASE kind = "Metadata" -> 1..MaxHosts
    [] kind = "ListOffsets" -> 1..MaxNodes
    [] OTHER -> {1}

\* a variant of the service without the timeout middleware
service_call_without_timeout(t) ==
  [st |-> "pending", resp |-> "none", deadline |-> -1]

\* self.service.call: the service built by from_config wraps KafkaService
\* in TimeoutMiddleware with config.request_timeout()
service_call(t) ==
  [st |-> "pending", resp |-> "none", deadline |-> t + RequestTimeout]

\* a variant that takes a response of any kind
decode_any(kind, resp) == "ok"

\* the and_then of every operation: a response of the request's kind is
\* turned into the value, any other into ErrorKind::UnexpectedResponse
decode(kind, resp) == IF resp = kind THEN "ok" ELSE "UnexpectedResponse"

\* the result of the operation once request i has ended with outcome st
Combine(kind, reqs, i, st) ==
  LET others == {j \in DOMAIN reqs : j # i}
  IN CASE Combinator(kind) = "single" -> st
       [] Combinator(kind) = "select_ok" ->
            IF st = "ok" THEN "ok"
            ELSE IF \E j \in others : reqs[j].st = "pending" THEN "pending" ELSE st
       [] Combinator(kind) = "join_all" ->
            IF st # "ok" THEN st
            ELSE IF \E j \in others : reqs[j].st = "pending" THEN "pending" ELSE "ok"

\* request i of the operation ends with outcome st; once the operation is
\* resolved its other request futures are dropped with their table entries
EndRequest(i, resp, st) ==
  LET result == Combine(op.kind, op.reqs, i, st)
  IN /\ op' = [op EXCEPT
                 !.reqs = [j \in DOMAIN @ |->
                             IF j = i THEN [@[j] EXCEPT !.st = st, !.resp = resp]
                             ELSE IF result # "pending" /\ @[j].st = "pending"
                                  THEN [@[j] EXCEPT !.st = "dropped"]
                                  ELSE @[j]],
                 !.result = result]
     /\ table' = IF result = "pending" THEN table \ {i} ELSE {}

\* an operation is called: its requests are issued through the service
StartOp(kind, n) ==
  /\ op.kind = "none"
  /\ op' = [kind |-> kind, reqs |-> [i \in 1..n |-> service_call(now)],
            result |-> "pending", at |-> now]
  /\ table' = 1..n
  /\ UNCHANGED <<now, batches, records, ltimers, flushes, metaVars, corrVars, netVars, sendVars, pushVars>>

\* a response to request i is decoded
ResponseArrives(i, resp) ==
  /\ i \in table
  /\ EndRequest(i, resp, decode(op.kind, resp))
  /\ UNCHANGED <<now, batches, records, ltimers, flushes, metaVars, corrVars, netVars, sendVars, pushVars>>

\* the connection of request i fails
ConnectionFails(i) ==
  /\ i \in table
  /\ EndRequest(i, "none", "Transport")
  /\ UNCHANGED <<now, batches, records, ltimers, flushes, metaVars, corrVars, netVars, sendVars, pushVars>>

\* the timeout of request i expires before its response
RequestTimesOut(i) ==
  /\ i \in table
  /\ op.reqs[i].deadline >= 0
  /\ now >= op.reqs[i].deadline
  /\ EndRequest(i, "none", "Timeout")
  /\ UNCHANGED <<now, batches, records, ltimers, flushes, metaVars, corrVars, netVars, sendVars, pushVars>>

\* the caller takes the result of a resolved operation
TakeResult ==
  /\ op.result \notin {"none", "pending"}
  /\ op' = NoOp
  /\ table' = {}
  /\ UNCHANGED <<now, batches, records, ltimers, flushes, metaVars, corrVars, netVars, sendVars, pushVars>>

\* time passes, up to the next request deadline
OpsTick ==
  /\ now <= RequestTimeout
  /\ \A i \in table : op.reqs[i].deadline >= 0 => now < op.reqs[i].deadline
  /\ now' = now + 1
  /\ UNCHANGED <<batches, records, ltimers, flushes, metaVars, corrVars, restVars>>

OpsInit == DefaultState /\ NewProducer /\ RestInit

OpsNext ==
  \/ \E kind \in Kinds : \E n \in Fanout(kind) : StartOp(kind, n)
  \/ \E i \in 1..MaxHosts \cup 1..MaxNodes : \E resp \in Kinds : ResponseArrives(i, resp)
  \/ \E i \in 1..MaxHosts \cup 1..MaxNodes : ConnectionFails(i)
  \/ \E i \in 1..MaxHosts \cup 1..MaxNodes : RequestTimesOut(i)
  \/ TakeResult
  \/ OpsTick

SpecOps == OpsInit /\ [][OpsNext]_vars

\* --------------------------------------- partitioner and Inner::push_record
\* Metadata::partitions_for_topic: the partition ids of a topic in list
\* order, Some(list) for the topic of the snapshot and None for the other
partitions_for_topic(topic_name) ==
  IF topic_name = 1 THEN <<[i \in 1..MaxParts |-> MaxParts - i]>> ELSE <<>>

\* the hash of a key, reduced by the caller modulo the partition count
Hash(key) == 31 * key + 7

\* a variant that counts every call that reaches the partition list
partition_counting_keys(topic_name, explicit, key, count) ==
  IF explicit # <<>> /\ explicit[1] >= 0
  THEN [partition |-> explicit, records |-> count]
  ELSE IF partitions_for_topic(topic_name) # <<>>
       THEN LET partitions == partitions_for_topic(topic_name)[1]
                index == (IF key # <<>> THEN Hash(key[1]) ELSE count) % Len(partitions)
            IN [partition |-> <<partitions[index + 1]>>, records |-> count + 1]
       ELSE [partition |-> <<>>, records |-> count]

\* DefaultPartitioner::partition with the records counter at the given
\* value: the partition chosen, if any, and the counter afterwards
partition(topic_name, explicit, key, count) ==
  IF explicit # <<>> /\ explicit[1] >= 0
  THEN [partition |-> explicit, records |-> count]
  ELSE IF partitions_for_topic(topic_name) # <<>>
       THEN LET partitions == partitions_for_topic(topic_name)[1]
                index == (IF key # <<>> THEN Hash(key[1]) ELSE count) % Len(partitions)
            IN [partition |-> <<partitions[index + 1]>>,
                records |-> IF key # <<>> THEN count ELSE count + 1]
       ELSE [partition |-> <<>>, records |-> count]

\* a variant that falls back to partition 1
unwrap_or_one(option) == IF option = <<>> THEN 1 ELSE option[1]

\* Option::unwrap_or_default on the partitioner's result
unwrap_or_default(option) == IF option = <<>> THEN 0 ELSE option[1]

\* Serializer::serialize: the bytes of an item, or an error for item 0
serialize(item) == IF item = 0 THEN [ok |-> FALSE, bytes |-> 0] ELSE [ok |-> TRUE, bytes |-> 10 + item]

\* key.and_then(|key| serialize(key).map_err(warn).ok()): a missing item and
\* an item the serializer rejects both give None
serialized(option) ==
  IF option # <<>> /\ serialize(option[1]).ok THEN <<serialize(option[1]).bytes>> ELSE <<>>

\* KafkaProducer::send of a record: Inner::push_record partitions it,
\* serializes key and value and pushes it to the accumulator
SendRecord(record) ==
  /\ Len(pushed) < MaxSends
  /\ LET r == Len(pushed) + 1
         chosen == partition(record.topic_name, record.partition, record.key, counter)
         tp == <<record.topic_name, unwrap_or_default(chosen.partition)>>
         push == push_record(acc, tp, r, 1, 0)
     IN /\ counter' = chosen.records
        /\ acc' = push.batches
        /\ pushed' = Append(pushed,
              [tp |-> tp, key |-> serialized(record.key), value |-> serialized(record.value),
               round_robin |-> chosen.records # counter,
               st |-> IF push.ok THEN "pending" ELSE "err"])
        /\ last_record' = record
  /\ UNCHANGED <<now, batches, records, ltimers, flushes, metaVars, corrVars, netVars, sendVars, opsVars>>

PushInit == DefaultState /\ NewProducer /\ RestInit

PushNext == \E record \in ProducerRecords : SendRecord(record)

SpecPush == PushInit /\ [][PushNext]_vars

\* ------------------------------------------------------------- connection
\* the request a correlation id of the pending table completes, if any
Completion(table_, id) == {e.call : e \in {x \in table_ : x.id = id}}

\* a variant of the failure that leaves the pending table as it is
fail_pending_keeping_table(table_) == table_

\* a read, write or decode error: every entry leaves the pending table, its
\* completion failed
fail_pending(table_) == {}

\* a variant of the drop that keeps the entry of the request
drop_request_keeping_entry(table_, i) == table_

\* dropping the response future of request i removes its pending entry
drop_request(table_, i) == {e \in table_ : e.call # i}

\* Connection::send: a fresh correlation id, an entry in the pending table,
\* the framed bytes written; the broker's response is on its way
ConnSend ==
  /\ conn = "Ready"
  /\ Len(calls) < MaxRequests
  /\ LET i == Len(calls) + 1
     IN /\ calls' = Append(calls, [id |-> i, st |-> "pending", got |-> 0])
        /\ pending' = pending \cup {[id |-> i, call |-> i]}
        /\ wire' = wire \cup {i}
  /\ UNCHANGED <<conn, poolVars>>
  /\ UNCHANGED <<metaVars, corrVars, prodVars, sendVars, opsVars, pushVars>>
  /\ UNCHANGED <<codecVars, subscriptions>>

\* a response is decoded, in any order: it resolves the completion its
\* correlation id has in the pending table, or is discarded when it has none
ResponseDecoded(id) ==
  /\ conn = "Ready"
  /\ id \in wire
  /\ wire' = wire \ {id}
  /\ pending' = {e \in pending : e.id # id}
  /\ calls' = [i \in DOMAIN calls |->
                 IF i \in Completion(pending, id)
                 THEN [calls[i] EXCEPT !.st = "ok", !.got = id]
                 ELSE calls[i]]
  /\ UNCHANGED <<conn, poolVars>>
  /\ UNCHANGED <<metaVars, corrVars, prodVars, sendVars, opsVars, pushVars>>
  /\ UNCHANGED <<codecVars, subscriptions>>

\* the caller drops the response future of request i
DropRequest(i) ==
  /\ i \in DOMAIN calls
  /\ calls[i].st = "pending"
  /\ calls' = [calls EXCEPT ![i].st = "dropped"]
  /\ pending' = drop_request(pending, i)
  /\ UNCHANGED <<conn, wire, poolVars>>
  /\ UNCHANGED <<metaVars, corrVars, prodVars, sendVars, opsVars, pushVars>>
  /\ UNCHANGED <<codecVars, subscriptions>>

\* a read, write or decode error on the connection
ConnError ==
  /\ conn = "Ready"
  /\ conn' = "Closed"
  /\ pending' = fail_pending(pending)
  /\ calls' = [i \in DOMAIN calls |->
                 IF \E e \in pending : e.call = i
                 THEN [calls[i] EXCEPT !.st = "lost"]
                 ELSE calls[i]]
  /\ wire' = {}
  /\ UNCHANGED poolVars
  /\ UNCHANGED <<metaVars, corrVars, prodVars, sendVars, opsVars, pushVars>>
  /\ UNCHANGED <<codecVars, subscriptions>>

\* the idle timeout closes a connection that has nothing outstanding
ConnIdleTimeout ==
  /\ conn = "Ready"
  /\ pending = {}
  /\ conn' = "Closed"
  /\ wire' = {}
  /\ UNCHANGED <<pending, calls, poolVars>>
  /\ UNCHANGED <<metaVars, corrVars, prodVars, sendVars, opsVars, pushVars>>
  /\ UNCHANGED <<codecVars, subscriptions>>

ConnInit == DefaultState /\ NewProducer /\ RestInit

ConnNext ==
  \/ ConnSend
  \/ \E id \in 1..MaxRequests : ResponseDecoded(id)
  \/ \E i \in 1..MaxRequests : DropRequest(i)
  \/ ConnError
  \/ ConnIdleTimeout

SpecConn == ConnInit /\ [][ConnNext]_vars

\* ------------------------------------------------------- connection pool
Conns == 1..MaxConns
\* the pool's clock runs past the idle limit of a connection returned late
MaxClock == MaxIdle + 2

\* a variant of the expiry that keeps every idle connection
never_expired(idle_at, t) == FALSE

\* an idle connection last used at idle_at has expired at time t
expired(idle_at, t) == t - idle_at > MaxIdle

\* the idle connections a checkout at time t may return
Live(entries, t) == {e \in entries : ~expired(e.idle_at, t)}

\* the newest of some idle connections
Newest(entries) == {e \in entries : \A x \in entries : x.idle_at <= e.idle_at}

\* the caller dials a fresh connection, which it owns
Dial(c) ==
  /\ c \notin borrowed \cup {e.conn : e \in idle}
  /\ \A d \in 1..(c - 1) : d \in borrowed \cup {e.conn : e \in idle}
  /\ borrowed' = borrowed \cup {c}
  /\ UNCHANGED <<idle, clock, checkout, connVars>>
  /\ UNCHANGED <<metaVars, corrVars, prodVars, sendVars, opsVars, pushVars>>
  /\ UNCHANGED <<codecVars, subscriptions>>

\* the owner drops a connection: it returns to the pool, idle from now on
Return(c) ==
  /\ c \in borrowed
  /\ borrowed' = borrowed \ {c}
  /\ idle' = idle \cup {[conn |-> c, idle_at |-> clock]}
  /\ UNCHANGED <<clock, checkout, connVars>>
  /\ UNCHANGED <<metaVars, corrVars, prodVars, sendVars, opsVars, pushVars>>
  /\ UNCHANGED <<codecVars, subscriptions>>

\* Pool::checkout: the newest idle connection within the limit, if any; the
\* expired ones are dropped
Checkout ==
  /\ LET live == Live(idle, clock)
     IN IF live = {}
        THEN /\ idle' = {}
             /\ checkout' = [conn |-> 0, idle_at |-> 0, at |-> clock]
             /\ UNCHANGED borrowed
        ELSE \E e \in Newest(live) :
               /\ idle' = live \ {e}
               /\ borrowed' = borrowed \cup {e.conn}
               /\ checkout' = [conn |-> e.conn, idle_at |-> e.idle_at, at |-> clock]
  /\ UNCHANGED <<clock, connVars>>
  /\ UNCHANGED <<metaVars, corrVars, prodVars, sendVars, opsVars, pushVars>>
  /\ UNCHANGED <<codecVars, subscriptions>>

\* time passes
PoolTick ==
  /\ clock < MaxClock
  /\ clock' = clock + 1
  /\ UNCHANGED <<idle, borrowed, checkout, connVars>>
  /\ UNCHANGED <<metaVars, corrVars, prodVars, sendVars, opsVars, pushVars>>
  /\ UNCHANGED <<codecVars, subscriptions>>

PoolInit == DefaultState /\ NewProducer /\ RestInit

PoolNext ==
  \/ \E c \in Conns : Dial(c)
  \/ \E c \in Conns : Return(c)
  \/ Checkout
  \/ PoolTick

SpecPool == PoolInit /\ [][PoolNext]_vars

\* ------------------------------------------------ ProduceResponse decoding
\* bytes are 0..255; Option values are <<>> for None and <<x>> for Some(x)
Versions == 0..MaxVersion

\* the value of the first k big-endian bytes read as an unsigned integer
RECURSIVE BeUnsigned(_, _)
BeUnsigned(bytes, k) ==
  IF k = 0 THEN 0 ELSE 256 * BeUnsigned(bytes, k - 1) + bytes[k]

\* nom be_i16, be_i32, be_i64: two's complement, the sign in the first byte
BeSigned(bytes) ==
  IF bytes[1] >= 128
  THEN -(BeUnsigned([k \in 1..Len(bytes) |-> 255 - bytes[k]], Len(bytes)) + 1)
  ELSE BeUnsigned(bytes, Len(bytes))

\* IResult of nom
Done(rest, value) == [kind |-> "Done", rest |-> rest, value |-> value]
Incomplete == [kind |-> "Incomplete", rest |-> <<>>, value |-> <<>>]
ParseError == [kind |-> "Error", rest |-> <<>>, value |-> <<>>]

\* the one result of a do_parse! chain: each step of a chain is written
\* Only({ ... r ... : r \in {step} }), which names the step's result r
Only(results) == CHOOSE r \in results : TRUE

\* be_i16 (w = 2), be_i32 (w = 4), be_i64 (w = 8): Incomplete on fewer than
\* w bytes
be_int(i, w) ==
  IF Len(i) < w THEN Incomplete
  ELSE Done(SubSeq(i, w + 1, Len(i)), BeSigned(SubSeq(i, 1, w)))

\* cond!(c, be_int): None without reading when c is false
cond(c, i, w) ==
  IF c
  THEN Only({IF r.kind = "Done" THEN Done(r.rest, <<r.value>>) ELSE r : r \in {be_int(i, w)}})
  ELSE Done(i, <<>>)

\* protocol::parse_string: an i16 length, -1 for a null string, then that
\* many bytes of UTF-8; a byte that is not ASCII stands for invalid UTF-8
parse_string(i) ==
  Only({IF l.kind # "Done" THEN l
        ELSE IF l.value = -1 THEN Done(l.rest, <<>>)
        ELSE IF l.value < 0 THEN ParseError
        ELSE IF Len(l.rest) < l.value THEN Incomplete
        ELSE IF \E k \in 1..l.value : l.rest[k] >= 128 THEN ParseError
        ELSE Done(SubSeq(l.rest, l.value + 1, Len(l.rest)), <<SubSeq(l.rest, 1, l.value)>>)
          : l \in {be_int(i, 2)}})

\* protocol::parse_response_header: the correlation id
parse_response_header(i) ==
  Only({IF c.kind # "Done" THEN c ELSE Done(c.rest, [correlation_id |-> c.value])
          : c \in {be_int(i, 4)}})

\* parse_produce_partition_status
parse_produce_partition_status(i, version) ==
  Only({IF partition_id.kind # "Done" THEN partition_id ELSE
  Only({IF error_code.kind # "Done" THEN error_code ELSE
  Only({IF offset.kind # "Done" THEN offset ELSE
  Only({IF timestamp.kind # "Done" THEN timestamp ELSE
        Done(timestamp.rest,
             [partition |-> partition_id.value, error_code |-> error_code.value,
              offset |-> offset.value, timestamp |-> timestamp.value])
    : timestamp \in {cond(version > 1, offset.rest, 8)}})
    : offset \in {be_int(error_code.rest, 8)}})
    : error_code \in {be_int(partition_id.rest, 2)}})
    : partition_id \in {be_int(i, 4)}})

\* many_m_n!(n, n, parse_produce_partition_status): n statuses, or the first
\* Incomplete or Error of one of them
RECURSIVE many_partition_status(_, _, _, _)
many_partition_status(i, version, n, res) ==
  IF Len(res) = n THEN Done(i, res)
  ELSE Only({IF r.kind = "Done"
             THEN many_partition_status(r.rest, version, n, Append(res, r.value))
             ELSE r
               : r \in {parse_produce_partition_status(i, version)}})

\* parse_produce_topic_status
parse_produce_topic_status(i, version) ==
  Only({IF topic_name.kind # "Done" THEN topic_name ELSE
  Only({IF n.kind # "Done" THEN n ELSE
  Only({IF partitions.kind # "Done" THEN partitions ELSE
        Done(partitions.rest,
             [topic_name |-> topic_name.value, partitions |-> partitions.value])
    : partitions \in {many_partition_status(n.rest, version, n.value, <<>>)}})
    : n \in {be_int(topic_name.rest, 4)}})
    : topic_name \in {parse_string(i)}})

\* many_m_n!(n, n, parse_produce_topic_status)
RECURSIVE many_topic_status(_, _, _, _)
many_topic_status(i, version, n, res) ==
  IF Len(res) = n THEN Done(i, res)
  ELSE Only({IF r.kind = "Done"
             THEN many_topic_status(r.rest, version, n, Append(res, r.value))
             ELSE r
               : r \in {parse_produce_topic_status(i, version)}})

\* ProduceResponse { header, topics, throttle_time }
ProduceResponseOf(header, topics, throttle_time) ==
  [header |-> header, topics |-> topics, throttle_time |-> throttle_time]

\* a variant that reads throttle_time from version 2 on
parse_produce_response_throttle_v2(i, version) ==
  Only({IF header.kind # "Done" THEN header ELSE
  Only({IF n.kind # "Done" THEN n ELSE
  Only({IF topics.kind # "Done" THEN topics ELSE
  Only({IF throttle_time.kind # "Done" THEN throttle_time ELSE
        Done(throttle_time.rest,
             ProduceResponseOf(header.value, topics.value, throttle_time.value))
    : throttle_time \in {cond(version > 1, topics.rest, 4)}})
    : topics \in {many_topic_status(n.rest, version, n.value, <<>>)}})
    : n \in {be_int(header.rest, 4)}})
    : header \in {parse_response_header(i)}})

\* parse_produce_response
parse_produce_response(i, version) ==
  Only({IF header.kind # "Done" THEN header ELSE
  Only({IF n.kind # "Done" THEN n ELSE
  Only({IF topics.kind # "Done" THEN topics ELSE
  Only({IF throttle_time.kind # "Done" THEN throttle_time ELSE
        Done(throttle_time.rest,
             ProduceResponseOf(header.value, topics.value, throttle_time.value))
    : throttle_time \in {cond(version > 0, topics.rest, 4)}})
    : topics \in {many_topic_status(n.rest, version, n.value, <<>>)}})
    : n \in {be_int(header.rest, 4)}})
    : header \in {parse_response_header(i)}})

\* a variant that takes the whole buffer with the response
decode_taking_all(buf, version) ==
  Only({CASE r.kind = "Done" -> [src |-> <<>>, out |-> "Some", value |-> <<r.value>>]
          [] r.kind = "Incomplete" -> [src |-> buf, out |-> "None", value |-> <<>>]
          [] OTHER -> [src |-> buf, out |-> "Err", value |-> <<>>]
            : r \in {parse_produce_response(buf, version)}})

\* ProduceResponseDecoder::decode: the result and the buffer afterwards;
\* split_to(off) takes the off bytes the parser went over
ProduceResponseDecoder_decode(buf, version) ==
  Only({CASE r.kind = "Done" ->
               [src |-> SubSeq(buf, Len(buf) - Len(r.rest) + 1, Len(buf)),
                out |-> "Some", value |-> <<r.value>>]
          [] r.kind = "Incomplete" -> [src |-> buf, out |-> "None", value |-> <<>>]
          [] OTHER -> [src |-> buf, out |-> "Err", value |-> <<>>]
            : r \in {parse_produce_response(buf, version)}})

\* the bytes of a small integer, or of -1, in w big-endian bytes
BeBytes(n, w) ==
  IF n < 0 THEN [k \in 1..w |-> 255] ELSE [k \in 1..w |-> IF k = w THEN n ELSE 0]

RECURSIVE Concat(_)
Concat(seqs) == IF seqs = <<>> THEN <<>> ELSE Head(seqs) \o Concat(Tail(seqs))

\* the wire layout the parsers read, field by field
EncodeOption(option, w) == IF option = <<>> THEN <<>> ELSE BeBytes(option[1], w)
EncodeString(option) ==
  IF option = <<>> THEN BeBytes(-1, 2) ELSE BeBytes(Len(option[1]), 2) \o option[1]
EncodePartitionStatus(p) ==
  BeBytes(p.partition, 4) \o BeBytes(p.error_code, 2) \o BeBytes(p.offset, 8)
    \o EncodeOption(p.timestamp, 8)
EncodeTopicStatus(t) ==
  EncodeString(t.topic_name) \o BeBytes(Len(t.partitions), 4)
    \o Concat([k \in 1..Len(t.partitions) |-> EncodePartitionStatus(t.partitions[k])])
EncodeResponse(r) ==
  BeBytes(r.header.correlation_id, 4) \o BeBytes(Len(r.topics), 4)
    \o Concat([k \in 1..Len(r.topics) |-> EncodeTopicStatus(r.topics[k])])
    \o EncodeOption(r.throttle_time, 4)

\* the sequences over S of length at most n
SeqsUpTo(S, n) == UNION {[1..k -> S] : k \in 0..n}

\* the responses a broker sends at a version: a null, an ASCII or a
\* non-UTF-8 topic name; the timestamp from version 2, the throttle time from
\* version 1 on
TopicNames == {<<>>, <<<<116>>>>, <<<<200>>>>}
PartitionStatuses(version) ==
  {[partition |-> 1, error_code |-> 2, offset |-> 3,
    timestamp |-> IF version > 1 THEN <<4>> ELSE <<>>]}
TopicStatuses(version) ==
  [topic_name : TopicNames, partitions : SeqsUpTo(PartitionStatuses(version), MaxStatuses)]
ProduceResponses(version) ==
  {ProduceResponseOf([correlation_id |-> 123], topics, IF version > 0 THEN <<5>> ELSE <<>>) :
     topics \in SeqsUpTo(TopicStatuses(version), MaxStatuses)}

\* what follows the response on the stream: nothing, or the first bytes of
\* the next response
Following == {<<>>, <<0, 0>>}

\* bytes of the stream arrive in the decoder's buffer
Receive(k) ==
  /\ k \in 1..Len(inbound)
  /\ src' = src \o SubSeq(inbound, 1, k)
  /\ inbound' = SubSeq(inbound, k + 1, Len(inbound))
  /\ UNCHANGED <<decoder, response>>
  /\ UNCHANGED <<metaVars, corrVars, prodVars, sendVars, opsVars, pushVars>>
  /\ UNCHANGED <<connVars, poolVars, subscriptions>>

\* the framed transport calls decode on the buffer
Decode ==
  /\ \E res \in {ProduceResponseDecoder_decode(src, decoder.version)} :
        /\ src' = res.src
        /\ decoder' = [decoder EXCEPT !.out = res.out, !.value = res.value,
                                      !.frames = IF res.out = "Some" THEN @ + 1 ELSE @,
                                      !.waited = @ \/ res.out = "None"]
  /\ UNCHANGED <<inbound, response>>
  /\ UNCHANGED <<metaVars, corrVars, prodVars, sendVars, opsVars, pushVars>>
  /\ UNCHANGED <<connVars, poolVars, subscriptions>>

\* a decoder of some version on an empty buffer, and a stream carrying one
\* response of that version
CodecInit ==
  /\ DefaultState /\ NewProducer
  /\ NewSender /\ NewService /\ NewPartitioner /\ NewConnection /\ NewPool
  /\ NewSubscriptions
  /\ \E version \in Versions : \E resp \in ProduceResponses(version) : \E next \in Following :
       /\ response = resp
       /\ inbound = EncodeResponse(resp) \o next
       /\ decoder = [version |-> version, out |-> "none", value |-> <<>>,
                     frames |-> 0, waited |-> FALSE]
  /\ src = <<>>

CodecNext ==
  \/ \E k \in 1..Len(inbound) : Receive(k)
  \/ Decode

SpecCodec == CodecInit /\ [][CodecNext]_vars

\* ------------------------------------------------- consumer subscriptions
\* the topic names a caller may give, and the iterators over them: any order,
\* repetitions included
SubscribedTopics == {"t1", "t2", "t3"}
TopicNameIters == SeqsUpTo(SubscribedTopics, MaxTopicNames)

\* HashSet::from_iter(topic_names.iter().cloned())
HashSetFromIter(topic_names) == {topic_names[i] : i \in DOMAIN topic_names}

\* Subscriptions::with_topics: a new value, both sets built from the names
with_topics(topic_names) ==
  [subscription |-> HashSetFromIter(topic_names),
   group_subscription |-> HashSetFromIter(topic_names),
   call |-> "with_topics", topic_names |-> topic_names]

\* a variant that assigns the new subscription to both sets
subscribe_replacing_group(self, topic_names) ==
  [subscription |-> HashSetFromIter(topic_names),
   group_subscription |-> HashSetFromIter(topic_names),
   call |-> "subscribe", topic_names |-> topic_names]

\* Subscriptions::subscribe: subscription is assigned first, then
\* group_subscription becomes its union with the new subscription
subscribe(self, topic_names) ==
  [subscription |-> HashSetFromIter(topic_names),
   group_subscription |-> self.group_subscription \cup HashSetFromIter(topic_names),
   call |-> "subscribe", topic_names |-> topic_names]

\* the consumer is built over Subscriptions::with_topics(topic_names)
WithTopics(topic_names) ==
  /\ subscriptions' = with_topics(topic_names)
  /\ UNCHANGED <<metaVars, corrVars, prodVars, sendVars, opsVars, pushVars>>
  /\ UNCHANGED <<connVars, poolVars, codecVars>>

\* a subscribe call on the current value
Subscribe(topic_names) ==
  /\ subscriptions' = subscribe(subscriptions, topic_names)
  /\ UNCHANGED <<metaVars, corrVars, prodVars, sendVars, opsVars, pushVars>>
  /\ UNCHANGED <<connVars, poolVars, codecVars>>

SubsInit == DefaultState /\ NewProducer /\ RestInit

SubsNext ==
  \/ \E topic_names \in TopicNameIters : WithTopics(topic_names)
  \/ \E topic_names \in TopicNameIters : Subscribe(topic_names)

SpecSubs == SubsInit /\ [][SubsNext]_vars

\* ------------------------------------------------------------- properties

\* C1: while the status is Loading, a metadata() call starts no fetch: it
\* appends exactly its own sender to the wait list, the status stays Loading,
\* and no load, request, timer or snapshot is created.
C1_LoadingCallJoinsWaitList ==
  [][\A w \in Callers :
       (status.kind = "Loading" /\ waiter[w].st = "idle" /\ waiter'[w].st # "idle")
       => /\ status' = Loading(Append(status.senders, w))
          /\ waiter'[w].st = "pending"
          /\ loads' = loads
          /\ correlation_id' = correlation_id
          /\ timers' = timers
          /\ heap' = heap]_vars

\* two callers have joined the wait list of a load that is still in flight
C1_Witness ==
  /\ status.kind = "Loading"
  /\ Len(status.senders) >= 2
  /\ \E l \in 1..Len(loads) : loads[l].state \in {"Metadata", "ApiVersions"}

\* C2: every waiter queued while Loading is pending with no completion until
\* the load completes, and from then on holds the snapshot published by a
\* load, the same one as every other queued waiter, completed exactly once.
C2_WaitersResolvedOnceWithSameSnapshot ==
  \A w \in Callers :
    waiter[w].queued =>
      /\ status.kind = "Loading" =>
            /\ waiter[w].st = "pending"
            /\ waiter[w].sends = 0
            /\ Cardinality({i \in 1..Len(status.senders) : status.senders[i] = w}) = 1
      /\ status.kind = "Loaded" =>
            /\ waiter[w].st = "ok"
            /\ waiter[w].sends = 1
            /\ \E l \in 1..Len(loads) : loads[l].result = waiter[w].ref
            /\ \A v \in Callers :
                  waiter[v].queued =>
                    waiter[v].ref = waiter[w].ref /\ heap[waiter[v].ref] = heap[waiter[w].ref]

\* two queued waiters have been completed by a load
C2_Witness ==
  /\ status.kind = "Loaded"
  /\ Cardinality({w \in Callers : waiter[w].queued /\ waiter[w].st = "ok"}) >= 2

\* C3 as stated: every load sends exactly one Metadata request.
C3_ExactlyOneMetadataRequest ==
  \A l \in 1..Len(loads) : loads[l].sentMeta = 1

\* C3 amended: every load sends exactly one Metadata request per configured
\* bootstrap host, whatever the number of waiters.
C3_OneMetadataRequestPerHost ==
  \A l \in 1..Len(loads) :
    /\ loads[l].sentMeta = config.hosts
    /\ loads[l].state = "Metadata" => Cardinality(loads[l].reqs) <= config.hosts

\* a load of a two-host client with two callers waiting
C3_Witness ==
  /\ config.hosts = 2
  /\ status.kind = "Loading"
  /\ Len(status.senders) >= 2
  /\ \E l \in 1..Len(loads) : loads[l].sentMeta = 2

\* C4: in the step in which a load fails while the status is Loading, every
\* waiter of the wait list observes the error and the wait list is emptied.
C4_FailedLoadFailsWaiters ==
  [][\A l \in 1..Len(loads) :
       (loads[l].state # "Failed" /\ loads'[l].state = "Failed" /\ status.kind = "Loading")
       => /\ status' = Loading(<<>>)
          /\ \A w \in Range(status.senders) : waiter'[w].st = "err"]_vars

\* C5: a snapshot cell, once allocated, keeps its value in every later step.
C5_SnapshotsImmutable ==
  [][/\ Len(heap') >= Len(heap)
     /\ \A r \in 1..Len(heap) : heap'[r] = heap[r]]_vars

\* a caller still holds the snapshot of an earlier load after a later load
\* has replaced the published reference by a different snapshot
C5_Witness ==
  /\ status.kind = "Loaded"
  /\ \E w \in Callers :
       /\ waiter[w].st = "ok"
       /\ waiter[w].ref # status.metadata
       /\ heap[waiter[w].ref] # heap[status.metadata]

\* C6: with metadata_max_age > 0 the refresh is periodic, so a refresh timer
\* is armed at every moment of the client's life.
C6_RefreshIsPeriodic ==
  config.metadata_max_age > 0 => timers > 0

\* C7: two calls of next_correlation_id fewer than 2^CorrBits calls apart
\* return different ids, so the requests in flight carry distinct ids.
C7_IdsDistinctWithinWindow ==
  \A i, j \in 1..Len(issued) :
    (i < j /\ j - i < 2^CorrBits) => issued[i] # issued[j]

\* the counter has gone once around: the newest id repeats the id returned
\* 2^CorrBits calls earlier, and two requests are in flight
C7_Witness ==
  /\ Len(issued) > 2^CorrBits
  /\ issued[Len(issued)] = issued[Len(issued) - 2^CorrBits]
  /\ Cardinality(inflight) = 2

\* C8: a non-forced drain never yields a lone batch that is neither full nor
\* past linger, and it yields a batch whose last append is at least linger
\* old: when such a drain finds nothing to yield, no such batch is queued.
C8_LingerFlush ==
  [][\A f \in FlushIds :
       /\ (~flushes'[f].force /\ flushes[f].state # "parked" /\ flushes'[f].state = "parked")
            => \A tp \in TPs : \A i \in 1..Len(batches'[tp]) :
                 batches'[tp][i].recs # <<>> => batches'[tp][i].last_push_time + Linger > now
       /\ (~flushes'[f].force /\ flushes'[f].state = "sending" /\ flushes'[f] # flushes[f]
            /\ Len(batches[flushes'[f].item.tp]) = 1 /\ ~is_full(flushes'[f].item.batch))
            => flushes'[f].item.batch.last_push_time + Linger <= now]_vars

\* C9: a forced drain yields every non-empty batch: when it finds nothing
\* more to yield, no partition queue holds a batch with a record.
C9_ForcedDrainYieldsEveryBatch ==
  [][\A f \in FlushIds :
       (flushes'[f].force /\ flushes[f].state # "parked" /\ flushes'[f].state = "parked")
       => \A tp \in TPs : \A i \in 1..Len(batches'[tp]) : batches'[tp][i].recs = <<>>]_vars

\* C10: the push that leaves the tail batch full reports batch_full = true
\* and send starts a non-forced flush in the same call, whatever the linger
\* timers; any other push reports batch_full = false and starts no flush.
C10_BatchFullFlush ==
  [][Len(records') = Len(records) + 1
     => /\ records'[Len(records')].is_full =
             (/\ records'[Len(records')].st # "err"
              /\ is_full(batches'[records'[Len(records')].tp]
                            [Len(batches'[records'[Len(records')].tp])]))
        /\ records'[Len(records')].is_full
             => /\ flushes[<<"full", Len(records')>>].state = "none"
                /\ flushes' = [flushes EXCEPT ![<<"full", Len(records')>>] =
                                  [force |-> FALSE, state |-> "spawned", item |-> NoItem]]
        /\ ~records'[Len(records')].is_full => flushes' = flushes]_vars

\* the last push filled its batch and its flush is spawned while a linger
\* timer is still running
C10_Witness ==
  /\ records # <<>>
  /\ records[Len(records)].is_full
  /\ flushes[<<"full", Len(records)>>].state = "spawned"
  /\ \E t \in ltimers : t.deadline > now

\* the thunks of record r held by the queued batches: (tp, batch, slot)
QueuedThunks(r) ==
  UNION {UNION {{<<tp, b, i>> : i \in {j \in DOMAIN batches[tp][b].recs :
                                         batches[tp][b].recs[j] = r}} :
                b \in DOMAIN batches[tp]} : tp \in TPs}

\* the thunks of record r held by the batch the Sender is sending
SenderThunks(r) ==
  {i \in DOMAIN sender.item.batch.recs :
     sender.state # "idle" /\ sender.item.batch.recs[i] = r}

ThunkCount(r) == Cardinality(QueuedThunks(r)) + Cardinality(SenderThunks(r))

\* C11: a successful push_record creates exactly one thunk in exactly one
\* batch and a failed one creates none; a thunk stays in exactly one place
\* (a queued batch or the batch being sent, whatever the number of attempts)
\* until it is completed, it is completed once and is gone afterwards, so
\* once every batch is drained and answered every successful push has
\* exactly one completed thunk.
C11_ThunkConservation ==
  [][\/ UNCHANGED <<futs, batches, sender>>
     \/ /\ \A r \in DOMAIN futs' :
             ThunkCount(r)' = IF futs'[r].thunk = "queued" THEN 1 ELSE 0
        /\ \A r \in DOMAIN futs :
             futs'[r].thunk # futs[r].thunk
               => futs[r].thunk = "queued" /\ ThunkCount(r) = 1 /\ ThunkCount(r)' = 0
        /\ Len(futs') = Len(futs) + 1
             => (futs'[Len(futs')].thunk = "queued")
                  = (\E size \in RecSizes :
                       push_record(batches, futs'[Len(futs')].tp, Len(futs'), size, 0).ok
                       /\ batches' = push_record(batches, futs'[Len(futs')].tp,
                                                 Len(futs'), size, 0).batches)]_vars

\* two records appended to one batch, the batch drained and answered: both
\* thunks completed and nothing left queued or being sent
C11_Witness ==
  /\ Len(futs) = 2
  /\ sender.state = "idle" /\ sender.item.batch.recs = <<1, 2>>
  /\ \A r \in DOMAIN futs : futs[r].thunk = "done" /\ ThunkCount(r) = 0
  /\ \A tp \in TPs : batches[tp] = <<>>

\* C12: when a batch is answered, its thunks are in append order and the
\* i-th appended record (i from 0) gets the base offset returned by the
\* broker for the partition plus i: dense and increasing in append order.
C12_OffsetsDenseInAppendOrder ==
  [][\A r \in DOMAIN futs :
       (futs[r].thunk # "done" /\ futs'[r].thunk = "done")
         => /\ r \in Range(sender.item.batch.recs)
            /\ \A i \in DOMAIN sender.item.batch.recs :
                 /\ futs'[sender.item.batch.recs[i]].thunk = "done"
                 /\ futs'[sender.item.batch.recs[i]].offset
                      = log_end[sender.item.tp] + (i - 1)
            /\ \A i, j \in DOMAIN sender.item.batch.recs :
                 i < j => sender.item.batch.recs[i] < sender.item.batch.recs[j]]_vars

\* a batch of two records has been answered: its records got the base offset
\* and the next one, in append order
C12_Witness ==
  /\ sender.state = "idle"
  /\ Len(sender.item.batch.recs) = 2
  /\ futs[sender.item.batch.recs[1]].thunk = "done"
  /\ futs[sender.item.batch.recs[1]].offset >= 0
  /\ futs[sender.item.batch.recs[2]].offset = futs[sender.item.batch.recs[1]].offset + 1

\* C13: dropping the future of a record changes neither the batches, nor
\* the Sender, nor the thunk of the record, nor any other record; and the
\* thunk of a record not yet answered, dropped or not, is in exactly one
\* batch, queued or being sent.
C13_DropDoesNotCancel ==
  [][/\ \A r \in DOMAIN futs :
          (futs[r].held /\ ~futs'[r].held)
            => /\ batches' = batches
               /\ sender' = sender
               /\ futs' = [futs EXCEPT ![r].held = FALSE]
     /\ \A r \in DOMAIN futs' :
          futs'[r].thunk = "queued"
            => (Cardinality(QueuedThunks(r)) + Cardinality(SenderThunks(r)))' = 1]_vars

\* a batch of two records is being sent although the future of its first
\* record was dropped; the second record's future is still held
C13_Witness ==
  /\ sender.state = "inflight"
  /\ Len(sender.item.batch.recs) = 2
  /\ ~futs[sender.item.batch.recs[1]].held
  /\ futs[sender.item.batch.recs[1]].thunk = "queued"
  /\ futs[sender.item.batch.recs[2]].held

\* C14: a new attempt at sending a batch is made only after a retryable
\* failure; after MessageTooLarge, InvalidTopicException or a response of
\* another kind no further attempt is made.
C14_RetryOnlyRetryable ==
  [][(sender.state = "backoff" /\ sender'.state = "inflight")
       => sender.last_err \in Retryable]_vars

\* C15: the attempt that follows a NotLeaderForPartition answer is made
\* once the refresh that answer triggered has published its snapshot, and
\* goes to the leader that snapshot names.
C15_RetryGoesToRefreshedLeader ==
  [][(/\ sender.state = "backoff"
      /\ sender.last_err = "NotLeaderForPartition"
      /\ sender'.state = "inflight")
       => ~refresh /\ sender'.addr = snapshot]_vars

\* the requests of the operation that got a response of another kind
Mismatched == {i \in DOMAIN op.reqs : op.reqs[i].resp \notin {"none", op.kind}}

\* C16 as stated: a decoded response of another kind makes the operation
\* fail with UnexpectedResponse, whatever else happens to it.
C16_MismatchFailsOperation ==
  \A i \in Mismatched : op.result = "UnexpectedResponse"

\* C16 amended: a decoded response of another kind fails its request with
\* UnexpectedResponse and is never a success value; it fails the operation
\* with that error in fetch_api_versions, produce_records and fetch_offsets
\* and in a fetch_metadata with one host; a fetch_metadata over several
\* hosts goes on waiting for the others, succeeds only with a Metadata
\* response from one of them and fails only when every request has failed.
C16_MismatchFailsRequest ==
  \A i \in Mismatched :
    /\ op.reqs[i].st = "UnexpectedResponse"
    /\ (Combinator(op.kind) # "select_ok" \/ Len(op.reqs) = 1)
         => op.result = "UnexpectedResponse"
    /\ op.result = "ok"
         => \E j \in DOMAIN op.reqs : op.reqs[j].st = "ok" /\ op.reqs[j].resp = op.kind
    /\ op.result = "pending" => \E j \in DOMAIN op.reqs : op.reqs[j].st = "pending"
    /\ (Combinator(op.kind) = "select_ok" /\ op.result \notin {"ok", "pending"})
         => \A j \in DOMAIN op.reqs : op.reqs[j].st \notin {"ok", "pending", "dropped"}

\* a fetch_metadata over two hosts has succeeded with the Metadata response
\* of one host after the other host answered with another kind of response
C16_Witness ==
  /\ op.kind = "Metadata"
  /\ Len(op.reqs) = 2
  /\ op.reqs[1].st = "UnexpectedResponse"
  /\ op.reqs[2].st = "ok"
  /\ op.result = "ok"

\* C17: a request issued through the service is pending only until
\* request_timeout has elapsed since it was issued; it ends with its
\* response or, once the timeout has elapsed, with a timeout error; and only
\* pending requests have an entry in the pending table, so a timed-out
\* request leaves none.
C17_RequestsEndByDeadline ==
  /\ \A i \in DOMAIN op.reqs :
       /\ op.reqs[i].st = "pending" => now <= op.at + RequestTimeout
       /\ op.reqs[i].st = "Timeout" => now >= op.at + RequestTimeout
  /\ \A i \in table : i \in DOMAIN op.reqs /\ op.reqs[i].st = "pending"

\* a request has timed out at its deadline while the operation, a
\* fetch_metadata over two hosts, still waits for the other host
C17_Witness ==
  /\ Len(op.reqs) = 2
  /\ op.reqs[1].st = "Timeout"
  /\ op.reqs[2].st = "pending"
  /\ 1 \notin table
  /\ now = op.at + RequestTimeout

\* the key or the value serializer fails for the record
SerializerFails(record) ==
  \/ record.key # <<>> /\ ~serialize(record.key[1]).ok
  \/ record.value # <<>> /\ ~serialize(record.value[1]).ok

\* C18: a send whose key or value serializer fails leaves the accumulator
\* unchanged and its future resolves with an error.
C18_SerializerErrorDropsRecord ==
  [][(Len(pushed') = Len(pushed) + 1 /\ SerializerFails(last_record'))
       => acc' = acc /\ pushed'[Len(pushed')].st = "err"]_vars

\* C19: DefaultPartitioner returns None exactly when no non-negative
\* partition is given and the topic has no partitions in the metadata, and
\* the record is then appended to partition 0 of its topic and to no other
\* queue; otherwise it is appended to the partition returned.
C19_NoPartitionFallsBackToZero ==
  [][Len(pushed') = Len(pushed) + 1
     => LET record == last_record'
            chosen == partition(record.topic_name, record.partition, record.key,
                                counter).partition
            tp == pushed'[Len(pushed')].tp
        IN /\ (chosen = <<>>)
                = (/\ record.partition = <<>> \/ record.partition[1] < 0
                   /\ partitions_for_topic(record.topic_name) = <<>>)
           /\ tp = <<record.topic_name, IF chosen = <<>> THEN 0 ELSE chosen[1]>>
           /\ acc'[tp] # <<>>
           /\ Len(pushed') \in Range(acc'[tp][Len(acc'[tp])].recs)
           /\ \A q \in PushTPs \ {tp} : acc'[q] = acc[q]]_vars

\* a record with a key and no partition for the topic the metadata does not
\* know has been appended to partition 0 of that topic
C19_Witness ==
  /\ last_record.topic_name = 2
  /\ last_record.partition = <<>>
  /\ last_record.key # <<>>
  /\ pushed[Len(pushed)].tp = <<2, 0>>
  /\ acc[<<2, 0>>] # <<>>

\* the sends that took the round-robin branch
RoundRobinSends == {i \in DOMAIN pushed : pushed[i].round_robin}

\* C20: the records counter is the number k of earlier calls made without
\* key and without non-negative partition for a topic with partitions; such
\* a call returns partitions[k mod n] and adds one to the counter; a call
\* with a key or a non-negative partition leaves the counter unchanged.
C20_RoundRobin ==
  [][Len(pushed') = Len(pushed) + 1
     => LET record == last_record'
            list == partitions_for_topic(record.topic_name)
            keyless == /\ record.key = <<>>
                       /\ record.partition = <<>> \/ record.partition[1] < 0
                       /\ list # <<>>
        IN /\ counter = Cardinality(RoundRobinSends)
           /\ pushed'[Len(pushed')].round_robin = keyless
           /\ keyless => /\ pushed'[Len(pushed')].tp[2]
                              = list[1][(counter % Len(list[1])) + 1]
                          /\ counter' = counter + 1
           /\ ~keyless => counter' = counter]_vars

\* three keyless sends to the topic with partitions: the third wraps around
\* to the partition of the first
C20_Witness ==
  /\ counter = 3
  /\ MaxParts = 2
  /\ pushed[3].tp = pushed[1].tp
  /\ pushed[2].tp # pushed[1].tp
  /\ \A i \in 1..3 : pushed[i].round_robin

\* the Flush futures returned by Producer::flush
UserFlushes == {f \in FlushIds : f[1] = "user"}

\* C21: the future returned by Producer::flush is not left pending once the
\* accumulator has nothing left to yield and none of its sends is running:
\* it has completed, with success or with the final error of a send.
C21_FlushCompletes ==
  \A f \in UserFlushes :
    ~(flushes[f].state = "parked" /\ poll(batches) = {[ready |-> FALSE, item |-> NoItem, batches |-> batches]})

\* the requests that have an entry in the pending table
Outstanding == {e.call : e \in pending}

\* C22: when the connection goes from Ready to Closed, every request that had
\* an entry in the pending table is failed with connection-lost and no other
\* request changes; on a Closed connection the table is empty and no request
\* is left pending (a request is pending exactly while it has an entry).
C22_ErrorFailsEveryPending ==
  [][/\ (conn = "Ready" /\ conn' = "Closed")
          => \A i \in DOMAIN calls :
               calls'[i] = IF i \in Outstanding THEN [calls[i] EXCEPT !.st = "lost"]
                           ELSE calls[i]
     /\ conn' = "Closed" => pending' = {}
     /\ \A i \in DOMAIN calls' : (calls'[i].st = "pending") = (i \in Outstanding')]_vars

\* the connection failed with two requests outstanding, after a first one
\* had been answered
C22_Witness ==
  /\ conn = "Closed"
  /\ Len(calls) = 3
  /\ calls[1].st = "ok"
  /\ calls[2].st = "lost" /\ calls[3].st = "lost"
  /\ pending = {}

\* C23: dropping an outstanding request removes its entry from the pending
\* table and changes nothing else: the connection stays Ready and the other
\* requests and entries are as before; a dropped request is never completed
\* later, a response whose correlation id has no entry changes no request,
\* and a request is only ever completed by the response carrying its own
\* correlation id.
C23_DropKeepsConnection ==
  [][/\ \A i \in DOMAIN calls :
          (calls[i].st = "pending" /\ calls'[i].st = "dropped")
            => /\ conn = "Ready" /\ conn' = "Ready"
               /\ pending' = {e \in pending : e.call # i}
               /\ wire' = wire
               /\ \A j \in DOMAIN calls \ {i} : calls'[j] = calls[j]
     /\ \A i \in DOMAIN calls : calls[i].st = "dropped" => calls'[i] = calls[i]
     /\ \A id \in wire \ wire' :
          (conn' = "Ready" /\ Completion(pending, id) = {}) => calls' = calls
     /\ \A i \in DOMAIN calls' : calls'[i].st = "ok" => calls'[i].got = calls'[i].id]_vars

\* the first request was dropped and its late response has been decoded and
\* discarded; the second request, sent before the drop, got its own
\* response afterwards, and the third is still outstanding
C23_Witness ==
  /\ conn = "Ready"
  /\ Len(calls) = 3
  /\ calls[1].st = "dropped" /\ 1 \notin wire
  /\ calls[2].st = "ok" /\ calls[2].got = 2
  /\ calls[3].st = "pending" /\ 3 \in Outstanding

\* C24: a checkout never returns a connection idle for longer than
\* max_connection_idle; the connection it returns is the newest of the idle
\* ones within the limit, and after a checkout no expired connection is left
\* in the pool.
C24_IdleEviction ==
  [][/\ \A e \in idle :
          e.conn \in borrowed'
            => /\ clock <= e.idle_at + MaxIdle
               /\ \A x \in idle : clock <= x.idle_at + MaxIdle => x.idle_at <= e.idle_at
               /\ checkout' = [conn |-> e.conn, idle_at |-> e.idle_at, at |-> clock]
     /\ (checkout' # checkout \/ \E e \in idle : e.conn \in borrowed')
          => /\ \A x \in idle' : clock <= x.idle_at + MaxIdle
             /\ idle' \subseteq idle
             /\ (checkout'.conn = 0) = (\A x \in idle : clock > x.idle_at + MaxIdle)]_vars

\* a checkout returned the second connection exactly at the idle limit and
\* dropped the first one, which had been idle for longer
C24_Witness ==
  /\ checkout.conn = 2
  /\ checkout.at = checkout.idle_at + MaxIdle
  /\ 2 \in borrowed
  /\ 1 \notin borrowed \cup {e.conn : e \in idle}

\* C25: when a queued waiter is completed, the status is Loaded with the
\* snapshot it was sent, so a get_metadata() it makes on waking is answered
\* at once with that snapshot and pushes nothing on a wait list; and the
\* status is Loaded whenever a waiter holds a snapshot.
C25_PublishedBeforeWake ==
  [][\/ UNCHANGED <<status, waiter>>
     \/ \A w \in Callers :
          /\ (waiter[w].st = "pending" /\ waiter'[w].st = "ok")
               => /\ status' = Loaded(waiter'[w].ref)
                  /\ metadata(status', waiter', w).status = status'
                  /\ metadata(status', waiter', w).waiter[w].st = "ok"
                  /\ metadata(status', waiter', w).waiter[w].ref = waiter'[w].ref
          /\ waiter'[w].st = "ok" => status'.kind = "Loaded"]_vars

\* two waiters queued while Loading have both been completed by the same
\* publication and the status is Loaded with their snapshot
C25_Witness ==
  /\ \A w \in Callers : waiter[w].queued /\ waiter[w].st = "ok"
  /\ status.kind = "Loaded"
  /\ \A w \in Callers : waiter[w].ref = status.metadata

\* the snapshot published by load l is not the current one
NotPublishedBy(l) == status.kind = "Loaded" => heap[status.metadata].gen # l

\* C26: with api_version_request, a load in its ApiVersions stage has sent
\* one request per broker of the Metadata it got and has published nothing
\* yet; the snapshot of a finished load, and so every published snapshot,
\* carries the window collected from each of its brokers; a failed load has
\* published nothing.
C26_ApiVersionsOfEveryBroker ==
  config.api_version_request =>
    /\ \A l \in DOMAIN loads :
         /\ loads[l].state = "ApiVersions"
              => LET brokers == heap[loads[l].meta].brokers
                 IN /\ {rq.broker : rq \in loads[l].api} \cup DOMAIN loads[l].got = brokers
                    /\ Cardinality(loads[l].api) + Cardinality(DOMAIN loads[l].got)
                         = Cardinality(brokers)
                    /\ loads[l].sentApi = Cardinality(brokers)
                    /\ loads[l].result = 0
                    /\ NotPublishedBy(l)
         /\ loads[l].state = "Done"
              => /\ loads[l].sentApi = Cardinality(heap[loads[l].result].brokers)
                 /\ \A b \in heap[loads[l].result].brokers :
                      heap[loads[l].result].api[b] = ApiVersionsResponse(b)
         /\ loads[l].state = "Failed" => loads[l].result = 0 /\ NotPublishedBy(l)
    /\ status.kind = "Loaded"
         => \A b \in heap[status.metadata].brokers :
              heap[status.metadata].api[b] = ApiVersionsResponse(b)

\* of two loads of a cluster of two brokers, the first failed on one of its
\* two ApiVersions requests and the second published a snapshot with the
\* windows of both brokers
C26_Witness ==
  /\ config.api_version_request
  /\ cluster = 2
  /\ Len(loads) = 2
  /\ loads[1].state = "Failed" /\ loads[1].sentApi = 2
  /\ loads[2].state = "Done"
  /\ status = Loaded(loads[2].result)
  /\ heap[status.metadata].api = [b \in {1, 2} |-> ApiVersionsResponse(b)]

\* C27: without api_version_request, no load sends an ApiVersions request
\* or has an ApiVersions stage: the load goes from waiting for the Metadata
\* response straight to the publication, and every published snapshot
\* carries the fallback window for each of its brokers.
C27_FallbackWithoutRequests ==
  ~config.api_version_request =>
    /\ \A l \in DOMAIN loads :
         /\ loads[l].state \in {"Metadata", "Done", "Failed"}
         /\ loads[l].sentApi = 0 /\ loads[l].api = {}
         /\ loads[l].state = "Metadata" => loads[l].reqs # {} /\ loads[l].result = 0
         /\ loads[l].state = "Done"
              => /\ heap[loads[l].result].gen = l
                 /\ \A b \in heap[loads[l].result].brokers :
                      heap[loads[l].result].api[b] = "fallback"
    /\ correlation_id = Len(loads) * config.hosts
    /\ status.kind = "Loaded"
         => \A b \in heap[status.metadata].brokers : heap[status.metadata].api[b] = "fallback"

\* a load of a cluster of two brokers has published a snapshot whose two
\* brokers carry the fallback window, having sent its Metadata request only
C27_Witness ==
  /\ ~config.api_version_request
  /\ cluster = 2
  /\ Len(loads) = 1
  /\ loads[1].state = "Done"
  /\ correlation_id = 1
  /\ status = Loaded(loads[1].result)
  /\ heap[status.metadata].api = [b \in {1, 2} |-> "fallback"]

\* C28: every call of next_correlation_id, whatever the value of the
\* counter, returns the value the counter held before the call and advances
\* the counter by one modulo 2^CorrBits, without overflow or failure.
C28_CounterWrapsWithoutFailure ==
  [][correlation_id' # correlation_id
       => /\ ~panicked'
          /\ issued' = Append(issued, correlation_id)
          /\ (correlation_id' - correlation_id) % 2^CorrBits = 1]_vars

\* C30: a send reports new_batch exactly when it enqueued a new batch, which
\* it does when the partition had no batch or the tail refused the record;
\* otherwise the record went into the tail batch and the queue has the same
\* length. The send arms one linger timer, for that record, exactly when
\* new_batch is reported.
C30_NewBatchArmsTimer ==
  [][Len(records') = Len(records) + 1
       => LET r == Len(records')
              tp == records'[r].tp
              q == batches[tp]
          IN /\ records'[r].new_batch = (Len(batches'[tp]) = Len(q) + 1)
             /\ records'[r].new_batch
                  => /\ SubSeq(batches'[tp], 1, Len(q)) = q
                     /\ (q # <<>> /\ records'[r].st = "pending")
                          => ~BuilderPush(q[Len(q)].used,
                                          batches'[tp][Len(q) + 1].used, BatchSize)
             /\ ~records'[r].new_batch
                  => /\ q # <<>>
                     /\ batches'[tp] = [q EXCEPT ![Len(q)] =
                           [@ EXCEPT !.recs = Append(@, r),
                                     !.used = batches'[tp][Len(q)].used,
                                     !.last_push_time = now]]
             /\ ltimers' = IF records'[r].new_batch
                           THEN ltimers \cup {[rec |-> r, deadline |-> now + Linger]}
                           ELSE ltimers
             /\ [rec |-> r, deadline |-> now + Linger] \notin ltimers]_vars

\* the second record went into the batch the first one opened: one linger
\* timer, armed by the first send, and none for the second
C30_Witness ==
  /\ Len(records) = 2
  /\ records[1].new_batch /\ ~records[2].new_batch
  /\ records[1].tp = records[2].tp
  /\ ltimers = {[rec |-> 1, deadline |-> Linger]}
  /\ now = 0

\* C29: a step changes the queue of a topic-partition in one of two ways
\* only. A drain takes the head batch, as it is, and leaves the others. A
\* push leaves every batch but the tail as it was and either appends the
\* record to the tail or, leaving the tail as it was too, enqueues a new
\* tail that holds at most the record. A drained batch does not change.
C29_OnlyTailReceivesRecords ==
  [][/\ \A tp \in TPs :
          LET q == batches[tp]
              r == Len(records')
          IN \/ batches'[tp] = q
             \/ /\ q # <<>>
                /\ batches'[tp] = Tail(q)
                /\ records' = records
                /\ \E f \in AccFlushIds :
                     /\ flushes[f].state # "sending"
                     /\ flushes'[f].state = "sending"
                     /\ flushes'[f].item = [tp |-> tp, batch |-> Head(q)]
             \/ /\ Len(records') = Len(records) + 1
                /\ records'[r].tp = tp
                /\ \/ /\ q # <<>>
                      /\ Len(batches'[tp]) = Len(q)
                      /\ \A i \in 1..(Len(q) - 1) : batches'[tp][i] = q[i]
                      /\ batches'[tp][Len(q)].recs = Append(q[Len(q)].recs, r)
                   \/ /\ Len(batches'[tp]) = Len(q) + 1
                      /\ SubSeq(batches'[tp], 1, Len(q)) = q
                      /\ batches'[tp][Len(q) + 1].recs \in {<<>>, <<r>>}
     /\ \A f \in AccFlushIds :
          flushes[f].state = "sending" => flushes'[f] = flushes[f]]_vars

\* a third record was sent to a partition whose queue held two batches, the
\* head one with room left: it went to a new tail, and the head batch, drained
\* afterwards, still holds the first record alone
C29_Witness ==
  /\ Len(records) = 3
  /\ \A r \in 1..3 : records[r].tp = 1 /\ records[r].st = "pending"
  /\ \E f \in AccFlushIds :
       /\ flushes[f].state = "sending"
       /\ flushes[f].item.tp = 1
       /\ flushes[f].item.batch.recs = <<1>>
       /\ ~is_full(flushes[f].item.batch)
  /\ Len(batches[1]) = 2
  /\ batches[1][1].recs = <<2>> /\ batches[1][2].recs = <<3>>

\* C31: a non-forced drain removes a batch from the accumulator only if the
\* batch is full or its last append is at least linger old, a head batch
\* followed by a newer batch included.
C31_NonForcedDrainOnlyFullOrExpired ==
  [][\A f \in FlushIds :
       (~flushes'[f].force /\ flushes'[f].state = "sending" /\ flushes'[f] # flushes[f])
       => \/ is_full(flushes'[f].item.batch)
          \/ flushes'[f].item.batch.last_push_time + Linger <= now]_vars

\* C32: a drain removes the head batch of a partition's queue and leaves the
\* batches behind it queued in their order, and the records of one partition
\* leave the accumulator in the order they were pushed: every record of a
\* drained batch was pushed before every record still queued for its partition.
C32_DrainIsFifo ==
  [][\A f \in AccFlushIds :
       (flushes'[f].state = "sending" /\ flushes'[f] # flushes[f])
       => LET tp == flushes'[f].item.tp
              q == batches[tp]
          IN /\ q # <<>>
             /\ flushes'[f].item.batch = Head(q)
             /\ batches'[tp] = Tail(q)
             /\ \A i \in 1..Len(batches'[tp]) :
                  \A r \in Range(flushes'[f].item.batch.recs) :
                    \A r2 \in Range(batches'[tp][i].recs) : r < r2]_vars

\* two batches of one partition have been drained one after the other while
\* a third, newer batch of the partition is still queued
C32_Witness ==
  \E f, g \in AccFlushIds :
    /\ f # g
    /\ flushes[f].state = "sending" /\ flushes[g].state = "sending"
    /\ flushes[f].item.tp = 1 /\ flushes[g].item.tp = 1
    /\ flushes[f].item.batch.recs = <<1>>
    /\ flushes[g].item.batch.recs = <<2>>
    /\ Len(batches[1]) = 1 /\ batches[1][1].recs = <<3>>

\* C33: an attempt made while the snapshot has no leader for the batch's
\* topic-partition sends no Produce request: it forces a metadata refresh and
\* the attempt fails with a retryable error.
C33_NoLeaderFailsAttempt ==
  [][(sender.state \in {"ready", "backoff"} /\ sender' # sender /\ snapshot = 0)
       => /\ sender'.state # "inflight"
          /\ refresh'
          /\ sender'.last_err \in Retryable]_vars

\* C34 as stated: a decoded response carries throttle_time exactly when the
\* decoder's version is at least 2.
C34_ThrottleTimeFromVersion2 ==
  decoder.out = "Some" => (decoder.value[1].throttle_time # <<>>) = (decoder.version >= 2)

\* C34 amended: a decoded response carries throttle_time exactly when the
\* version is at least 1 and each partition status carries a timestamp
\* exactly when the version is at least 2; a field the version does not
\* define is None and its bytes are not taken from the buffer: the first
\* response decoded is the one sent and what followed it is still buffered.
C34_FieldsByVersion ==
  decoder.out = "Some" =>
    /\ (decoder.value[1].throttle_time # <<>>) = (decoder.version >= 1)
    /\ \A t \in 1..Len(decoder.value[1].topics) :
         \A k \in 1..Len(decoder.value[1].topics[t].partitions) :
           (decoder.value[1].topics[t].partitions[k].timestamp # <<>>) = (decoder.version >= 2)
    /\ decoder.frames = 1 =>
         /\ decoder.value[1] = response
         /\ src \o inbound \in Following

\* a version 1 decoder has decoded a response with a partition status: the
\* throttle time is there, the timestamp is not, and the bytes that followed
\* the response are in the buffer
C34_Witness ==
  /\ decoder.version = 1
  /\ decoder.out = "Some"
  /\ decoder.value[1].throttle_time = <<5>>
  /\ Len(decoder.value[1].topics) = 1
  /\ Len(decoder.value[1].topics[1].partitions) = 1
  /\ decoder.value[1].topics[1].partitions[1].timestamp = <<>>
  /\ src = <<0, 0>>

\* no topic name of the response is invalid UTF-8
WellFormed(r) == \A t \in 1..Len(r.topics) : r.topics[t].topic_name # <<<<200>>>>

\* C35: a decode that returns None or an error leaves the buffer as it was;
\* one that returns a response takes exactly the bytes of that response off
\* the front of the buffer. While the buffer holds less than the whole first
\* response decode returns None, and once it holds all of it decode returns
\* that response.
C35_IncrementalDecode ==
  [][(inbound' = inbound /\ <<src, decoder>>' # <<src, decoder>>)
       => /\ decoder'.out \in {"None", "Err"} => src' = src
          /\ decoder'.out = "Some" => src = EncodeResponse(decoder'.value[1]) \o src'
          /\ (decoder.frames = 0 /\ WellFormed(response))
               => IF Len(src) < Len(EncodeResponse(response))
                  THEN decoder'.out = "None"
                  ELSE decoder'.out = "Some" /\ decoder'.value[1] = response]_vars

\* the decoder returned None on a part of the response, then the response
\* once the rest had arrived, and left the two bytes that followed it
C35_Witness ==
  /\ decoder.waited
  /\ decoder.out = "Some"
  /\ decoder.frames = 1
  /\ decoder.value[1] = response
  /\ Len(response.topics) = 1
  /\ src = <<0, 0>>
  /\ inbound = <<>>

\* C36: the metadata status is monotone. A Loaded status is never followed
\* by a Loading one; it changes only in a step in which a load completes, to
\* Loaded with the snapshot of that load; and a step in which a load fails
\* leaves the published snapshot as it was.
C36_StatusMonotone ==
  [][/\ status.kind = "Loaded" =>
          /\ status'.kind = "Loaded"
          /\ status' # status =>
                \E l \in 1..Len(loads) :
                  /\ loads[l].state # "Done"
                  /\ loads'[l].state = "Done"
                  /\ status' = Loaded(loads'[l].result)
     /\ (\E l \in 1..Len(loads) : loads[l].state # "Failed" /\ loads'[l].state = "Failed")
          => status' = status]_vars

\* a second load has replaced the snapshot published by the first one, or
\* has failed after the first one published
C36_Witness ==
  /\ Len(loads) >= 2
  /\ loads[1].state = "Done"
  /\ status.kind = "Loaded"
  /\ \/ loads[2].state = "Done" /\ status.metadata = loads[2].result
                                /\ heap[status.metadata] # heap[loads[1].result]
     \/ loads[2].state = "Failed" /\ status.metadata = loads[1].result

\* C37: with several loads in flight, the step in which a load completes
\* publishes the snapshot of that load, whichever load was started first, so
\* the published snapshot is always the one of the load that completed last;
\* the waiters of the wait list are all woken, with that snapshot, by the
\* first load to complete, a later completion wakes nobody, and no waiter is
\* pending once a snapshot is published.
C37_LastCompletedLoadWins ==
  [][/\ \A l \in 1..Len(loads) :
          (loads[l].state # "Done" /\ loads'[l].state = "Done")
          => /\ status' = Loaded(loads'[l].result)
             /\ heap'[loads'[l].result].gen = l
             /\ \A k \in 1..Len(loads) :
                   loads[k].state = "Done" => loads[k].result < loads'[l].result
             /\ status.kind = "Loading" =>
                   \A w \in Range(status.senders) :
                     waiter'[w].st = "ok" /\ waiter'[w].ref = loads'[l].result
             /\ status.kind = "Loaded" => waiter' = waiter
     /\ status'.kind = "Loaded" => \A w \in Callers : waiter'[w].st # "pending"]_vars

\* the load started second completed first and woke a queued waiter; the
\* load started first completed last and its snapshot is the published one
C37_Witness ==
  /\ Len(loads) >= 2
  /\ loads[1].state = "Done" /\ loads[2].state = "Done"
  /\ loads[2].result < loads[1].result
  /\ status = Loaded(loads[1].result)
  /\ heap[status.metadata].gen = 1
  /\ \E w \in Callers :
       waiter[w].queued /\ waiter[w].st = "ok" /\ waiter[w].ref = loads[2].result

\* C38: every batch held in an accumulator queue contains at least one
\* record with its thunk, and a push_record that returns an error leaves the
\* queues as they were.
C38_NoEmptyBatchQueued ==
  [][/\ \A tp \in TPs : \A i \in 1..Len(batches'[tp]) : batches'[tp][i].recs # <<>>
     /\ (Len(records') > Len(records) /\ records'[Len(records')].st = "err")
          => batches' = batches]_vars

\* C39: within one flush_batches run batches are sent one at a time. A run
\* that is sending a batch takes no other batch before the send of that one
\* has finished, with every record of the batch answered; when the send
\* fails for good the run ends in that step with the records failed and
\* every queued batch left in the accumulator; and a run that has ended
\* with the error drains nothing afterwards.
C39_OneBatchAtATime ==
  [][\A f \in AccFlushIds :
       /\ (flushes[f].state = "sending" /\ flushes'[f] # flushes[f])
            => \/ /\ flushes'[f].state \in {"sending", "parked"}
                  /\ \A r \in Range(flushes[f].item.batch.recs) : records'[r].st = "ok"
               \/ /\ flushes'[f] = [flushes[f] EXCEPT !.state = "failed", !.item = NoItem]
                  /\ \A r \in Range(flushes[f].item.batch.recs) : records'[r].st = "err"
                  /\ batches' = batches
       /\ (flushes[f].state = "sending" /\ flushes'[f] = flushes[f])
            => \A r \in Range(flushes[f].item.batch.recs) : records'[r].st = "pending"
       /\ flushes[f].state = "failed" => flushes'[f] = flushes[f]]_vars

\* a run has sent one batch, taken the next one when that send finished,
\* and ended with the error of the second send while a batch was queued
C39_Witness ==
  \E f \in AccFlushIds :
    /\ flushes[f].state = "failed"
    /\ \E r \in 1..Len(records) : records[r].st = "ok"
    /\ \E r \in 1..Len(records) : records[r].st = "err"
    /\ \E tp \in TPs : batches[tp] # <<>>
    /\ \A g \in AccFlushIds : g # f => flushes[g].state \in {"none", "spawned"}

\* C40: after any sequence of with_topics and subscribe calls subscription
\* is a subset of group_subscription; a subscribe call makes subscription
\* exactly the set of the names given, removes no topic from
\* group_subscription and adds to it the names given and nothing else.
C40_SubscriptionWithinGroup ==
  [][/\ subscriptions'.subscription \subseteq subscriptions'.group_subscription
     /\ subscriptions'.call = "subscribe" =>
          /\ subscriptions'.subscription = Range(subscriptions'.topic_names)
          /\ subscriptions.group_subscription \subseteq subscriptions'.group_subscription
          /\ subscriptions'.group_subscription =
                subscriptions.group_subscription \cup Range(subscriptions'.topic_names)]_vars

\* a subscribe call has dropped a topic from subscription, with a name
\* given twice, and the group subscription still holds the dropped topic
C40_Witness ==
  /\ subscriptions.call = "subscribe"
  /\ Len(subscriptions.topic_names) > Cardinality(subscriptions.subscription)
  /\ subscriptions.subscription # {}
  /\ subscriptions.group_subscription \ subscriptions.subscription # {}


============================================================================
